---- MODULE Spec2Model ----
(***************************************************************************)
(* Model of the Hyperspace Shiny Timer calculator (hyperspaceCalculator.ts) *)
(* of za-companion.                                                         *)
(*                                                                          *)
(* JavaScript numbers are IEEE-754 binary floating point.  They are         *)
(* modelled here as binary floating-point values with round-to-nearest,     *)
(* ties-to-even, signed zeros, +-Infinity, NaN, gradual underflow and the   *)
(* exponent range of binary64; the significand has Precision bits instead   *)
(* of 53 because TLC's integers have 32 bits.                               *)
(***************************************************************************)
EXTENDS Integers, Sequences, FiniteSets, TLC

(***************************************************************************)
(* Bounds of the model.                                                     *)
(***************************************************************************)
\* Bits of the significand of a number (binary64 has 53).
Precision == 24
\* Terms of the series Math.log sums.
LogTerms == 7

(***************************************************************************)
(* The number type.                                                         *)
(***************************************************************************)
\* Largest binary exponent of a finite number: values are below 2^(EMax+1).
EMax == 1023
\* Binary exponent of the smallest normal number, 2^EMin.
EMin == -1022

Pow2(n) == 2 ^ n

\* Exponent of the last significand bit of the smallest and largest numbers.
MinE == EMin - (Precision - 1)
MaxE == EMax - (Precision - 1)

NaN == [k |-> "nan"]
Inf(neg) == [k |-> "inf", neg |-> neg]
Infinity == Inf(FALSE)
NegInfinity == Inf(TRUE)
\* A finite number: (-1)^neg * m * 2^e, with m = 0, or m normal
\* (2^(Precision-1) <= m < 2^Precision), or m subnormal (e = MinE).
Fin(neg, m, e) == [k |-> "fin", neg |-> neg, m |-> m, e |-> e]
Zero == Fin(FALSE, 0, 0)
NegZero == Fin(TRUE, 0, 0)
One == Fin(FALSE, Pow2(Precision - 1), -(Precision - 1))
Two == Fin(FALSE, Pow2(Precision - 1), -(Precision - 2))

IsNaN(x) == x.k = "nan"
IsInf(x) == x.k = "inf"
isFinite(x) == x.k = "fin"
IsZero(x) == x.k = "fin" /\ x.m = 0

RECURSIVE BitLen(_)
BitLen(n) == IF n = 0 THEN 0 ELSE 1 + BitLen(n \div 2)

Max(a, b) == IF a >= b THEN a ELSE b

\* Round to nearest, ties to the even significand: whether q + rem/(2 half),
\* plus a little when sticky, rounds up to q + 1.
RoundUp(q, rem, half, sticky) ==
    rem > half \/ (rem = half /\ (sticky \/ q % 2 = 1))

\* (-1)^neg * q * 2^e for a rounded significand 0 <= q <= 2^Precision.
Pack(neg, q, e) ==
    IF q = 0 THEN Fin(neg, 0, 0)
    ELSE IF q = Pow2(Precision)
    THEN (IF e + 1 > MaxE THEN Inf(neg) ELSE Fin(neg, Pow2(Precision - 1), e + 1))
    ELSE IF e > MaxE THEN Inf(neg)
    ELSE Fin(neg, q, e)

\* RoundPack when the significand n is to move right by shift bits (left when
\* shift is negative).
Shifted(neg, n, e, sticky, shift) ==
    IF n = 0 THEN Fin(neg, 0, 0)
    ELSE IF shift <= 0
    THEN (IF e + shift > MaxE THEN Inf(neg) ELSE Fin(neg, n * Pow2(-shift), e + shift))
    ELSE IF shift > BitLen(n) THEN Fin(neg, 0, 0)
    ELSE Pack(neg,
              (n \div Pow2(shift)) +
                  (IF RoundUp(n \div Pow2(shift), n % Pow2(shift), Pow2(shift - 1), sticky)
                   THEN 1 ELSE 0),
              e + shift)

\* The number nearest to (-1)^neg * (n + f) * 2^e, where 0 <= n < 2^30 and
\* 0 <= f < 1 with f > 0 exactly when sticky; ties go to the even significand.
\* When sticky, n has more than Precision bits or e is below MinE.
RoundPack(neg, n, e, sticky) ==
    Shifted(neg, n, e, sticky, Max(BitLen(n) - Precision, MinE - e))

\* The number that is the integer i (|i| < 2^30), rounded.
FromInt(i) == RoundPack(i < 0, IF i < 0 THEN -i ELSE i, 0, FALSE)

\* x with its significand moved left by up bits.
ShiftedUp(x, up) == Fin(x.neg, x.m * Pow2(up), x.e - up)

\* A finite non-zero number with its significand shifted to Precision bits
\* (the exponent may then be below MinE).
Normalized(x) == ShiftedUp(x, Precision - BitLen(x.m))

Neg(x) == IF IsNaN(x) THEN x ELSE [x EXCEPT !.neg = ~x.neg]

\* -1, 0, 1 as a is below, equal to, above b.
Sign3(a, b) == IF a = b THEN 0 ELSE IF a < b THEN -1 ELSE 1

\* -1, 0, 1 as |x| is below, equal to, above |y|; x and y finite.
CmpMag(x, y) ==
    IF x.m = 0 \/ y.m = 0 THEN Sign3(x.m, y.m)
    ELSE IF x.e # y.e THEN Sign3(x.e, y.e)
    ELSE Sign3(x.m, y.m)

\* -1 for -Infinity, 1 for +Infinity, 0 for a finite number.
Rank(x) == IF IsInf(x) THEN (IF x.neg THEN -1 ELSE 1) ELSE 0

\* -1, 0, 1 as x is below, equal to, above y; neither is NaN.
Cmp(x, y) ==
    IF IsInf(x) \/ IsInf(y) THEN Sign3(Rank(x), Rank(y))
    ELSE IF x.m = 0 /\ y.m = 0 THEN 0
    ELSE IF x.neg # y.neg THEN (IF x.neg THEN -1 ELSE 1)
    ELSE IF x.neg THEN CmpMag(y, x) ELSE CmpMag(x, y)

\* The comparison operators <, <=, >, >=, === : false when an operand is NaN.
Lt(x, y) == ~IsNaN(x) /\ ~IsNaN(y) /\ Cmp(x, y) < 0
Le(x, y) == ~IsNaN(x) /\ ~IsNaN(y) /\ Cmp(x, y) <= 0
Eq(x, y) == ~IsNaN(x) /\ ~IsNaN(y) /\ Cmp(x, y) = 0
Gt(x, y) == Lt(y, x)
Ge(x, y) == Le(y, x)

\* Bits of each half of a significand in the long multiplication.
HalfBits == (Precision + 1) \div 2

\* The product (hi * h + mid) * h + low of two significands, h = 2^HalfBits,
\* low < h, times 2^(e - 2 HalfBits + 3), rounded.
MulRound(neg, low, mid, hi, e) ==
    RoundPack(neg,
              (hi + (mid \div Pow2(HalfBits))) * 8 +
                  ((mid % Pow2(HalfBits)) \div Pow2(HalfBits - 3)),
              e,
              ((mid % Pow2(HalfBits)) % Pow2(HalfBits - 3) # 0) \/ low # 0)

\* (a1 h + a0) * (b1 h + b0) by long multiplication.
MulParts(neg, a1, a0, b1, b0, e) ==
    MulRound(neg, (a0 * b0) % Pow2(HalfBits),
             a1 * b0 + a0 * b1 + ((a0 * b0) \div Pow2(HalfBits)), a1 * b1, e)

\* a * b for normalized a and b.
MulFin(neg, a, b) ==
    MulParts(neg, a.m \div Pow2(HalfBits), a.m % Pow2(HalfBits),
             b.m \div Pow2(HalfBits), b.m % Pow2(HalfBits),
             a.e + b.e + 2 * HalfBits - 3)

\* x * y.
Mul(x, y) ==
    IF IsNaN(x) \/ IsNaN(y) THEN NaN
    ELSE IF IsInf(x) \/ IsInf(y)
    THEN (IF IsZero(x) \/ IsZero(y) THEN NaN ELSE Inf(x.neg # y.neg))
    ELSE IF x.m = 0 \/ y.m = 0 THEN Fin(x.neg # y.neg, 0, 0)
    ELSE MulFin(x.neg # y.neg, Normalized(x), Normalized(y))

\* Steps of the long division, each producing four bits of the quotient.
DivSteps == (Precision + 4) \div 4

RECURSIVE LongDiv(_, _, _, _)
\* <<quotient, remainder>> after `steps` more steps of four bits.
LongDiv(q, r, b, steps) ==
    IF steps = 0 THEN <<q, r>>
    ELSE LongDiv(q * 16 + ((r * 16) \div b), (r * 16) % b, b, steps - 1)

DivRound(neg, qr, e) == RoundPack(neg, qr[1], e, qr[2] # 0)

\* a / b for normalized a and b.
DivFin(neg, a, b) ==
    DivRound(neg, LongDiv(a.m \div b.m, a.m % b.m, b.m, DivSteps),
             a.e - b.e - 4 * DivSteps)

\* x / y.
Div(x, y) ==
    IF IsNaN(x) \/ IsNaN(y) THEN NaN
    ELSE IF IsInf(x) THEN (IF IsInf(y) THEN NaN ELSE Inf(x.neg # y.neg))
    ELSE IF IsInf(y) THEN Fin(x.neg # y.neg, 0, 0)
    ELSE IF y.m = 0 THEN (IF x.m = 0 THEN NaN ELSE Inf(x.neg # y.neg))
    ELSE IF x.m = 0 THEN Fin(x.neg # y.neg, 0, 0)
    ELSE DivFin(x.neg # y.neg, Normalized(x), Normalized(y))

\* (-1)^xneg * A + (-1)^yneg * (B + f), times 2^e, rounded; 0 <= f < 1 with
\* f > 0 exactly when sticky.
AddParts(xneg, A, yneg, B, sticky, e) ==
    IF xneg # yneg /\ A = B /\ ~sticky THEN Zero
    ELSE RoundPack(IF xneg = yneg \/ A > B THEN xneg ELSE yneg,
                   IF xneg = yneg THEN A + B
                   ELSE IF A > B THEN (IF sticky THEN A - B - 1 ELSE A - B)
                   ELSE B - A,
                   e,
                   sticky /\ (xneg = yneg \/ A > B))

\* The significand m with three guard bits, moved right by d bits, and whether
\* bits were lost.
Aligned(m, d) == IF d > Precision + 3 THEN 0 ELSE (m * 8) \div Pow2(d)
Lost(m, d) == IF d > Precision + 3 THEN TRUE ELSE (m * 8) % Pow2(d) # 0

\* x + y for finite non-zero x and y with x.e >= y.e.
AddAligned(x, y) ==
    AddParts(x.neg, x.m * 8, y.neg, Aligned(y.m, x.e - y.e), Lost(y.m, x.e - y.e),
             x.e - 3)

\* x + y.
Add(x, y) ==
    IF IsNaN(x) \/ IsNaN(y) THEN NaN
    ELSE IF IsInf(x) THEN (IF IsInf(y) /\ x.neg # y.neg THEN NaN ELSE x)
    ELSE IF IsInf(y) THEN y
    ELSE IF x.m = 0 /\ y.m = 0 THEN Fin(x.neg /\ y.neg, 0, 0)
    ELSE IF x.m = 0 THEN y
    ELSE IF y.m = 0 THEN x
    ELSE AddAligned(IF x.e >= y.e THEN x ELSE y, IF x.e >= y.e THEN y ELSE x)

\* x - y.
Sub(x, y) == Add(x, Neg(y))

\* The number a decimal literal n/d denotes (n, d integers below 2^Precision).
Lit(n, d) == Div(FromInt(n), FromInt(d))

(***************************************************************************)
(* Math.log, Math.round, Number.prototype.toFixed.                          *)
(***************************************************************************)
\* ln 2.
Ln2 == Lit(693147181, 1000000000)

RECURSIVE LogSeries(_, _)
\* 1/(2k+1) + w/(2k+3) + w^2/(2k+5) + ... up to the term of index LogTerms-1.
LogSeries(w, k) ==
    IF k >= LogTerms THEN Zero
    ELSE Add(Div(One, FromInt(2 * k + 1)), Mul(w, LogSeries(w, k + 1)))

\* 2 atanh(u) = ln((1+u)/(1-u)).
LogFraction(u) == Mul(Mul(Two, u), LogSeries(Mul(u, u), 0))

\* E ln 2 + lnf.
LogSum(E, lnf) == IF E = 0 THEN lnf ELSE Add(Mul(FromInt(E), Ln2), lnf)

\* ln(f * 2^E) for 3/4 <= f < 3/2.
LogParts(f, E) == LogSum(E, LogFraction(Div(Sub(f, One), Add(f, One))))

\* A normalized a > 0 is f * 2^E with 3/4 <= f < 3/2.
IsBig(a) == a.m >= 3 * Pow2(Precision - 2)
Fraction(a) == Fin(FALSE, a.m, IF IsBig(a) THEN -Precision ELSE -(Precision - 1))
Exponent(a) == a.e + (Precision - 1) + (IF IsBig(a) THEN 1 ELSE 0)

LogNormal(a) == LogParts(Fraction(a), Exponent(a))

\* Math.log(x).
MathLog(x) ==
    IF IsNaN(x) THEN NaN
    ELSE IF IsInf(x) THEN (IF x.neg THEN NaN ELSE Infinity)
    ELSE IF x.m = 0 THEN NegInfinity
    ELSE IF x.neg THEN NaN
    ELSE LogNormal(Normalized(x))

\* The integer nearest to n / 2^s, ties towards +Infinity; n >= 0, s > 0.
RoundHalfUp(neg, q, rem, half) ==
    IF neg THEN -(IF rem > half THEN q + 1 ELSE q)
    ELSE IF rem >= half THEN q + 1 ELSE q

\* The integer nearest to the exact value of c * x, ties towards +Infinity, for
\* a finite x and an integer 1 <= c <= 60 with |c * x| < 2^30.
RoundScaled(c, x) ==
    IF x.m = 0 THEN 0
    ELSE IF x.e >= 0
    THEN (IF x.neg THEN -(c * x.m * Pow2(x.e)) ELSE c * x.m * Pow2(x.e))
    ELSE IF -x.e > Precision + 6 THEN 0
    ELSE RoundHalfUp(x.neg, (c * x.m) \div Pow2(-x.e), (c * x.m) % Pow2(-x.e),
                     Pow2(-x.e - 1))

\* Math.round(x), as an integer, for a finite |x| < 2^30.
MathRound(x) == RoundScaled(1, x)

\* The decimal n/10 printed with one decimal place.
Tenths(n) == ToString(n \div 10) \o "." \o ToString(n % 10)

\* x.toFixed(1) for a finite x >= 0: the n with n/10 nearest to x, the larger
\* n on a tie, printed with one decimal.
toFixed1(x) == Tenths(RoundScaled(10, x))

(***************************************************************************)
(* hyperspaceCalculator.ts: tables and lookups.                             *)
(***************************************************************************)
Methods == {"auto", "manual"}
DonutLevels == 0 .. 3

\* RESETS_PER_MINUTE with the two rates exchanged.
RESETS_PER_MINUTE_Swapped ==
    [method \in Methods |-> IF method = "auto" THEN FromInt(10) ELSE FromInt(25)]

RESETS_PER_MINUTE ==
    [method \in Methods |-> IF method = "auto" THEN FromInt(25) ELSE FromInt(10)]

\* SHINY_ODDS_CHARM_ON with two digits of the odds of level 1 transposed.
SHINY_ODDS_CHARM_ON_Transposed ==
    (0 :> Div(One, Lit(102438, 100))) @@ (1 :> Div(One, Lit(89160, 100))) @@
    (2 :> Div(One, Lit(68308, 100))) @@ (3 :> Div(One, Lit(58557, 100)))

SHINY_ODDS_CHARM_ON ==
    (0 :> Div(One, Lit(102438, 100))) @@ (1 :> Div(One, Lit(81960, 100))) @@
    (2 :> Div(One, Lit(68308, 100))) @@ (3 :> Div(One, Lit(58557, 100)))

SHINY_ODDS_CHARM_OFF ==
    (0 :> Div(One, Lit(409600, 100))) @@ (1 :> Div(One, Lit(204825, 100))) @@
    (2 :> Div(One, Lit(136567, 100))) @@ (3 :> Div(One, Lit(102438, 100)))

\* ALPHA_RATES with the rates as percentages.
ALPHA_RATES_Percent ==
    (0 :> Zero) @@ (1 :> FromInt(11)) @@ (2 :> FromInt(21)) @@ (3 :> FromInt(51))

ALPHA_RATES ==
    (0 :> Zero) @@ (1 :> Lit(11, 100)) @@ (2 :> Lit(21, 100)) @@ (3 :> Lit(51, 100))

\* getShinyProbability reading the charm-on table whatever charmOn is.
getShinyProbabilityCharmed(charmOn, sparklingLevel) ==
    SHINY_ODDS_CHARM_ON[sparklingLevel]

getShinyProbability(charmOn, sparklingLevel) ==
    LET odds == IF charmOn THEN SHINY_ODDS_CHARM_ON ELSE SHINY_ODDS_CHARM_OFF
    IN  odds[sparklingLevel]

getAlphaProbability(level) == ALPHA_RATES[level]

(***************************************************************************)
(* Formatting.                                                              *)
(***************************************************************************)
\* The placeholder string, the single character U+2014 (em dash).
EmDash == "<U+2014>"

\* "Xm Ys", "Xm" or "Ys" for m minutes and s seconds.
DurationText(m, s) ==
    IF m = 0 THEN ToString(s) \o "s"
    ELSE IF s = 0 THEN ToString(m) \o "m"
    ELSE ToString(m) \o "m " \o ToString(s) \o "s"

\* m = Math.floor(totalSeconds / 60), s = totalSeconds % 60 and the text.
WholeSeconds(totalSeconds) == DurationText(totalSeconds \div 60, totalSeconds % 60)

\* Math.round(product) and what follows.  When minutes * 60 overflows the
\* product is Infinity: Math.round(Infinity) is Infinity, m is
\* Math.floor(Infinity / 60) = Infinity, s is Infinity % 60 = NaN, neither
\* is === 0 and the template string of the last return is built.
RoundedSeconds(product) ==
    IF isFinite(product) THEN WholeSeconds(MathRound(product))
    ELSE "Infinitym NaNs"

\* For minutes with minutes * 60 below 2^30 or infinite.
formatDuration(minutes) ==
    IF ~isFinite(minutes) \/ Lt(minutes, Zero) THEN EmDash
    ELSE RoundedSeconds(Mul(minutes, FromInt(60)))

\* compact.endsWith('.0') ? compact.slice(0, -2) : compact
StripPointZero(compact) ==
    IF Len(compact) >= 2 /\ SubSeq(compact, Len(compact) - 1, Len(compact)) = ".0"
    THEN SubSeq(compact, 1, Len(compact) - 2)
    ELSE compact

\* (rounded / unit).toFixed(1), without a trailing ".0", and the suffix.
Compact(rounded, unit, suffix) ==
    StripPointZero(toFixed1(Div(FromInt(rounded), FromInt(unit)))) \o suffix

\* CountText with the bounds of the ranges taken inclusively.
CountTextInclusive(rounded) ==
    IF rounded <= 10000 THEN ToString(rounded)
    ELSE IF rounded <= 1000000 THEN Compact(rounded, 1000, "k")
    ELSE Compact(rounded, 1000000, "M")

\* The text for a count that rounds to the integer rounded.
CountText(rounded) ==
    IF rounded < 10000 THEN ToString(rounded)
    ELSE IF rounded < 1000000 THEN Compact(rounded, 1000, "k")
    ELSE Compact(rounded, 1000000, "M")

\* For counts below 2^30.
formatEncounters(count) ==
    IF ~isFinite(count) \/ Le(count, Zero) THEN EmDash
    ELSE CountText(MathRound(count))

(***************************************************************************)
(* The solver.                                                              *)
(***************************************************************************)
\* The guard on the denominator and the division that end both solvers.
GuardedQuotient(numerator, denominator) ==
    IF Eq(denominator, Zero) \/ ~isFinite(denominator) THEN Infinity
    ELSE Div(numerator, denominator)

\* computeTimeForConfidence without pokemonPerReset in the denominator.
computeTimeForConfidencePerReset(confidence, resetsPerMinute, pokemonPerReset, shinyProbability) ==
    IF Le(shinyProbability, Zero) \/ Ge(shinyProbability, One) THEN Infinity
    ELSE IF Le(confidence, Zero) \/ Ge(confidence, One) THEN Infinity
    ELSE IF Le(resetsPerMinute, Zero) \/ Le(pokemonPerReset, Zero) THEN Infinity
    ELSE LET numerator == MathLog(Sub(One, confidence))
             denominator == Mul(resetsPerMinute, MathLog(Sub(One, shinyProbability)))
         IN  GuardedQuotient(numerator, denominator)

\* computeTimeForConfidence with Math.log(confidence) as the numerator.
computeTimeForConfidenceLogC(confidence, resetsPerMinute, pokemonPerReset, shinyProbability) ==
    IF Le(shinyProbability, Zero) \/ Ge(shinyProbability, One) THEN Infinity
    ELSE IF Le(confidence, Zero) \/ Ge(confidence, One) THEN Infinity
    ELSE IF Le(resetsPerMinute, Zero) \/ Le(pokemonPerReset, Zero) THEN Infinity
    ELSE LET numerator == MathLog(confidence)
             denominator == Mul(Mul(resetsPerMinute, pokemonPerReset),
                                MathLog(Sub(One, shinyProbability)))
         IN  GuardedQuotient(numerator, denominator)

computeTimeForConfidence(confidence, resetsPerMinute, pokemonPerReset, shinyProbability) ==
    IF Le(shinyProbability, Zero) \/ Ge(shinyProbability, One) THEN Infinity
    ELSE IF Le(confidence, Zero) \/ Ge(confidence, One) THEN Infinity
    ELSE IF Le(resetsPerMinute, Zero) \/ Le(pokemonPerReset, Zero) THEN Infinity
    ELSE LET numerator == MathLog(Sub(One, confidence))
             denominator == Mul(Mul(resetsPerMinute, pokemonPerReset),
                                MathLog(Sub(One, shinyProbability)))
         IN  GuardedQuotient(numerator, denominator)

\* computeAverageTime without pokemonPerReset in the denominator.
computeAverageTimePerReset(resetsPerMinute, pokemonPerReset, shinyProbability) ==
    IF Le(shinyProbability, Zero) \/ Ge(shinyProbability, One) THEN Infinity
    ELSE IF Le(resetsPerMinute, Zero) \/ Le(pokemonPerReset, Zero) THEN Infinity
    ELSE LET denominator == Mul(resetsPerMinute, shinyProbability)
         IN  GuardedQuotient(One, denominator)

\* computeAverageTime without the guard on the two rates.
computeAverageTimeUnguarded(resetsPerMinute, pokemonPerReset, shinyProbability) ==
    IF Le(shinyProbability, Zero) \/ Ge(shinyProbability, One) THEN Infinity
    ELSE LET denominator == Mul(Mul(resetsPerMinute, pokemonPerReset), shinyProbability)
         IN  GuardedQuotient(One, denominator)

computeAverageTime(resetsPerMinute, pokemonPerReset, shinyProbability) ==
    IF Le(shinyProbability, Zero) \/ Ge(shinyProbability, One) THEN Infinity
    ELSE IF Le(resetsPerMinute, Zero) \/ Le(pokemonPerReset, Zero) THEN Infinity
    ELSE LET denominator == Mul(Mul(resetsPerMinute, pokemonPerReset), shinyProbability)
         IN  GuardedQuotient(One, denominator)

computeEncountersForConfidence(confidence, shinyProbability) ==
    IF Le(shinyProbability, Zero) \/ Ge(shinyProbability, One) THEN Infinity
    ELSE IF Le(confidence, Zero) \/ Ge(confidence, One) THEN Infinity
    ELSE LET numerator == MathLog(Sub(One, confidence))
             denominator == MathLog(Sub(One, shinyProbability))
         IN  GuardedQuotient(numerator, denominator)

\* computeAverageEncounters as the confidence formula at C = 0.5.
computeAverageEncountersAtHalf(shinyProbability) ==
    computeEncountersForConfidence(Lit(5, 10), shinyProbability)

computeAverageEncounters(shinyProbability) ==
    IF Le(shinyProbability, Zero) \/ Ge(shinyProbability, One) THEN Infinity
    ELSE Div(One, shinyProbability)

(***************************************************************************)
(* computeHyperspaceTimes.  A call either throws or returns a result.       *)
(***************************************************************************)
Throw(message) == [threw |-> TRUE, value |-> message]
Return(value) == [threw |-> FALSE, value |-> value]

\* The primary (shiny) calculations, the rate and the primary probability.
Primary(resetsPerMinute, pokemonPerReset, shinyProbability) ==
    [t50 |-> computeTimeForConfidence(Lit(5, 10), resetsPerMinute, pokemonPerReset,
                                      shinyProbability),
     t90 |-> computeTimeForConfidence(Lit(9, 10), resetsPerMinute, pokemonPerReset,
                                      shinyProbability),
     t95 |-> computeTimeForConfidence(Lit(95, 100), resetsPerMinute, pokemonPerReset,
                                      shinyProbability),
     t99 |-> computeTimeForConfidence(Lit(99, 100), resetsPerMinute, pokemonPerReset,
                                      shinyProbability),
     tAvg |-> computeAverageTime(resetsPerMinute, pokemonPerReset, shinyProbability),
     encounters50 |-> computeEncountersForConfidence(Lit(5, 10), shinyProbability),
     encounters90 |-> computeEncountersForConfidence(Lit(9, 10), shinyProbability),
     encounters95 |-> computeEncountersForConfidence(Lit(95, 100), shinyProbability),
     encounters99 |-> computeEncountersForConfidence(Lit(99, 100), shinyProbability),
     encountersAvg |-> computeAverageEncounters(shinyProbability),
     encountersPerMinute |-> Mul(resetsPerMinute, pokemonPerReset),
     shinyProbability |-> shinyProbability]

\* The compound (shiny and alpha) calculations when the alpha donut is on.
CompoundOn(resetsPerMinute, pokemonPerReset, shalphaProbability) ==
    [t50Shalpha |-> computeTimeForConfidence(Lit(5, 10), resetsPerMinute,
                                             pokemonPerReset, shalphaProbability),
     t90Shalpha |-> computeTimeForConfidence(Lit(9, 10), resetsPerMinute,
                                             pokemonPerReset, shalphaProbability),
     t95Shalpha |-> computeTimeForConfidence(Lit(95, 100), resetsPerMinute,
                                             pokemonPerReset, shalphaProbability),
     t99Shalpha |-> computeTimeForConfidence(Lit(99, 100), resetsPerMinute,
                                             pokemonPerReset, shalphaProbability),
     tAvgShalpha |-> computeAverageTime(resetsPerMinute, pokemonPerReset,
                                        shalphaProbability),
     encounters50Shalpha |-> computeEncountersForConfidence(Lit(5, 10),
                                                            shalphaProbability),
     encounters90Shalpha |-> computeEncountersForConfidence(Lit(9, 10),
                                                            shalphaProbability),
     encounters95Shalpha |-> computeEncountersForConfidence(Lit(95, 100),
                                                            shalphaProbability),
     encounters99Shalpha |-> computeEncountersForConfidence(Lit(99, 100),
                                                            shalphaProbability),
     encountersAvgShalpha |-> computeAverageEncounters(shalphaProbability),
     shalphaProbability |-> shalphaProbability]

\* The compound results when the alpha donut is off.
CompoundOff ==
    [t50Shalpha |-> Infinity, t90Shalpha |-> Infinity, t95Shalpha |-> Infinity,
     t99Shalpha |-> Infinity, tAvgShalpha |-> Infinity,
     encounters50Shalpha |-> Infinity, encounters90Shalpha |-> Infinity,
     encounters95Shalpha |-> Infinity, encounters99Shalpha |-> Infinity,
     encountersAvgShalpha |-> Infinity,
     shalphaProbability |-> Zero]

\* Compound with 0 in the place of Infinity when the alpha donut is off.
CompoundOffAsZero(alphaDonutLevel, resetsPerMinute, pokemonPerReset, shalphaProbability) ==
    IF alphaDonutLevel > 0
    THEN CompoundOn(resetsPerMinute, pokemonPerReset, shalphaProbability)
    ELSE [f \in DOMAIN CompoundOff |-> Zero]

\* alphaDonutLevel > 0 ? <the calculation> : Infinity, for each compound
\* quantity, and alphaDonutLevel > 0 ? shalphaProbability : 0.
Compound(alphaDonutLevel, resetsPerMinute, pokemonPerReset, shalphaProbability) ==
    IF alphaDonutLevel > 0
    THEN CompoundOn(resetsPerMinute, pokemonPerReset, shalphaProbability)
    ELSE CompoundOff

\* The numbers of the result.
Calculations(alphaDonutLevel, resetsPerMinute, pokemonPerReset, shinyProbability, shalphaProbability) ==
    Primary(resetsPerMinute, pokemonPerReset, shinyProbability) @@
    Compound(alphaDonutLevel, resetsPerMinute, pokemonPerReset, shalphaProbability)

\* The formatted strings of the result, one for each time and each count.
Formatted(c) ==
    [t50Formatted |-> formatDuration(c.t50),
     t90Formatted |-> formatDuration(c.t90),
     t95Formatted |-> formatDuration(c.t95),
     t99Formatted |-> formatDuration(c.t99),
     tAvgFormatted |-> formatDuration(c.tAvg),
     encounters50Formatted |-> formatEncounters(c.encounters50),
     encounters90Formatted |-> formatEncounters(c.encounters90),
     encounters95Formatted |-> formatEncounters(c.encounters95),
     encounters99Formatted |-> formatEncounters(c.encounters99),
     encountersAvgFormatted |-> formatEncounters(c.encountersAvg),
     t50ShalphaFormatted |-> formatDuration(c.t50Shalpha),
     t90ShalphaFormatted |-> formatDuration(c.t90Shalpha),
     t95ShalphaFormatted |-> formatDuration(c.t95Shalpha),
     t99ShalphaFormatted |-> formatDuration(c.t99Shalpha),
     tAvgShalphaFormatted |-> formatDuration(c.tAvgShalpha),
     encounters50ShalphaFormatted |-> formatEncounters(c.encounters50Shalpha),
     encounters90ShalphaFormatted |-> formatEncounters(c.encounters90Shalpha),
     encounters95ShalphaFormatted |-> formatEncounters(c.encounters95Shalpha),
     encounters99ShalphaFormatted |-> formatEncounters(c.encounters99Shalpha),
     encountersAvgShalphaFormatted |-> formatEncounters(c.encountersAvgShalpha)]

\* The result object: the numbers and their formatted strings.
HyperspaceResult(c) == c @@ Formatted(c)

\* Calculate with the shiny probability in the place of the compound one.
CalculateWithoutAlpha(alphaDonutLevel, resetsPerMinute, pokemonPerReset, shinyProbability, alphaProbability) ==
    HyperspaceResult(Calculations(alphaDonutLevel, resetsPerMinute, pokemonPerReset,
                                  shinyProbability, shinyProbability))

\* Calculate with the alpha rate in the place of the compound probability.
CalculateAlphaOnly(alphaDonutLevel, resetsPerMinute, pokemonPerReset, shinyProbability, alphaProbability) ==
    HyperspaceResult(Calculations(alphaDonutLevel, resetsPerMinute, pokemonPerReset,
                                  shinyProbability, alphaProbability))

\* The calculations with the looked-up rates and probabilities.
Calculate(alphaDonutLevel, resetsPerMinute, pokemonPerReset, shinyProbability, alphaProbability) ==
    HyperspaceResult(Calculations(alphaDonutLevel, resetsPerMinute, pokemonPerReset,
                                  shinyProbability,
                                  Mul(shinyProbability, alphaProbability)))

\* computeHyperspaceTimes with the validation `pokemonPerReset <= 0` alone.
computeHyperspaceTimesUnchecked(input) ==
    IF Le(input.pokemonPerReset, Zero)
    THEN Throw("pokemonPerReset must be a positive number")
    ELSE Return(Calculate(input.alphaDonutLevel,
                          RESETS_PER_MINUTE[input.method],
                          input.pokemonPerReset,
                          getShinyProbability(input.shinyCharm, input.shinyDonutLevel),
                          getAlphaProbability(input.alphaDonutLevel)))

computeHyperspaceTimes(input) ==
    IF ~isFinite(input.pokemonPerReset) \/ Le(input.pokemonPerReset, Zero)
    THEN Throw("pokemonPerReset must be a positive number")
    ELSE Return(Calculate(input.alphaDonutLevel,
                          RESETS_PER_MINUTE[input.method],
                          input.pokemonPerReset,
                          getShinyProbability(input.shinyCharm, input.shinyDonutLevel),
                          getAlphaProbability(input.alphaDonutLevel)))

(***************************************************************************)
(* The inputs drawn.                                                        *)
(***************************************************************************)
\* The largest power of two, 2^1023.
Huge == Fin(FALSE, Pow2(Precision - 1), MaxE)

\* pokemonPerReset values computeHyperspaceTimes rejects.
RejectedPokemonPerReset == {NaN, Infinity, NegInfinity, FromInt(-5), Zero, NegZero}
\* Counts of the caller's domain, the integers 1 to 50.
DomainCounts == {1, 2, 10, 49, 50}
DomainPokemonPerReset == {FromInt(n) : n \in DomainCounts}
PokemonPerResetValues ==
    RejectedPokemonPerReset \cup DomainPokemonPerReset \cup {Huge}

CalculatorInputs ==
    [method : Methods, shinyDonutLevel : DonutLevels, alphaDonutLevel : DonutLevels,
     shinyCharm : BOOLEAN, pokemonPerReset : PokemonPerResetValues]

\* Arguments for direct calls of the four solver functions.
SolverConfidences == {NaN, Lit(-1, 2), Zero, Lit(1, 2), Lit(99, 100), One, Lit(3, 2)}
SolverRates == {NaN, FromInt(-10), Zero, FromInt(10), FromInt(25)}
SolverPerReset == {NaN, FromInt(-5), Zero, FromInt(1), FromInt(10)}
SolverProbabilities ==
    {NaN, Div(FromInt(-1), FromInt(4096)), Zero, Div(One, FromInt(4096)),
     Lit(1, 2), One, Two}

\* Arguments for direct calls of formatDuration: half seconds from 0 to
\* MaxHalfSeconds, larger whole minutes, and the special values.
MaxHalfSeconds == 250

DurationArguments ==
    {NaN, Infinity, NegInfinity, FromInt(-1), Lit(-1, 120), NegZero,
     FromInt(60), FromInt(1000000), Fin(FALSE, Pow2(Precision - 1), MaxE - 4), Huge}
    \cup {Lit(n, 120) : n \in 0 .. MaxHalfSeconds}

\* Arguments for direct calls of formatEncounters.
CountArguments ==
    {NaN, Infinity, NegInfinity, FromInt(-1), Zero, NegZero,
     Lit(1, 4), Lit(1, 2), Lit(3, 2), Lit(19997, 2), Lit(19999, 2)}
    \cup {FromInt(n) : n \in {1, 42, 9999, 10000, 10049, 10050, 10051, 12345,
                              99949, 99950, 123456, 999949, 999950, 999999,
                              1000000, 1049999, 1050000, 1500000, 7654321}}

(***************************************************************************)
(* boxCalculator.ts.  Regional numbers are integers, exact as numbers.      *)
(***************************************************************************)
\* a % b of JavaScript for integers: the sign of the dividend.
Remainder(a, b) == IF a >= 0 THEN a % b ELSE -((-a) % b)

\* The position of slot slotIndex in box box.
BoxPosition(box, slotIndex) ==
    [box |-> box, row |-> (slotIndex \div 6) + 1,
     column |-> Remainder(slotIndex, 6) + 1, slotIndex |-> slotIndex]

\* calculateBoxPosition with slotIndex computed without the conversion to a
\* 0-based index.
calculateBoxPositionOneBased(regionalNumber) ==
    BoxPosition(((regionalNumber - 1) \div 30) + 1, Remainder(regionalNumber, 30))

calculateBoxPosition(regionalNumber) ==
    BoxPosition(((regionalNumber - 1) \div 30) + 1, Remainder(regionalNumber - 1, 30))

\* Arguments for direct calls of calculateBoxPosition.
MaxRegionalNumber == 95

RegionalNumbers == -31 .. MaxRegionalNumber

(***************************************************************************)
(* State.  call, outcome: the call a caller of the pure functions has made, *)
(* if any, and how it ended; those modules keep no state between calls.     *)
(* page: the state of routes/hyperspace/+page.svelte.  cachedPokedex,       *)
(* loadPromise: the module state of utils/pokedex.ts; loads: the loads it   *)
(* has started; loadCalls: the calls of loadPokedex.  sprites: the two      *)
(* caches of utils/pokeapi.ts, its calls and the number of API queries.     *)
(* detail: the state of routes/box/pokemon/[id]/+page.svelte.               *)
(***************************************************************************)
VARIABLES call, outcome, page, cachedPokedex, loadPromise, loads, loadCalls
VARIABLES sprites
VARIABLES detail
VARIABLES worker
VARIABLES i18n

calculatorVars == <<call, outcome>>
pageVars == <<page>>
pokedexVars == <<cachedPokedex, loadPromise, loads, loadCalls>>
spriteVars == <<sprites>>
detailVars == <<detail>>
workerVars == <<worker>>
i18nVars == <<i18n>>

vars == <<calculatorVars, pageVars, pokedexVars, spriteVars, detailVars, workerVars, i18nVars>>

\* What the actions of one part leave alone.
beyondCalculator == <<pageVars, pokedexVars, spriteVars, detailVars, workerVars, i18nVars>>
beyondPage == <<calculatorVars, pokedexVars, spriteVars, detailVars, workerVars, i18nVars>>
beyondPokedex == <<calculatorVars, pageVars, spriteVars, detailVars, workerVars, i18nVars>>
beyondSprites == <<calculatorVars, pageVars, pokedexVars, detailVars, workerVars, i18nVars>>
beyondDetail == <<calculatorVars, pageVars, pokedexVars, spriteVars, workerVars, i18nVars>>
beyondWorker == <<calculatorVars, pageVars, pokedexVars, spriteVars, detailVars, i18nVars>>
beyondI18n == <<calculatorVars, pageVars, pokedexVars, spriteVars, detailVars, workerVars>>

NoCall == [fn |-> "none"]
NoOutcome == [threw |-> FALSE, value |-> "none"]

\* null
Null == [type |-> "null"]

(***************************************************************************)
(* routes/hyperspace/+page.svelte.  An event handler changes the input      *)
(* state; Svelte then runs the $effect, before the next event.  The modal   *)
(* flag showHowItWorks is left out.                                         *)
(***************************************************************************)
\* The value of a decimal digit, -1 for any other character.
DigitOf(ch) ==
    CASE ch = "0" -> 0 [] ch = "1" -> 1 [] ch = "2" -> 2 [] ch = "3" -> 3
      [] ch = "4" -> 4 [] ch = "5" -> 5 [] ch = "6" -> 6 [] ch = "7" -> 7
      [] ch = "8" -> 8 [] ch = "9" -> 9 [] OTHER -> -1

CharAt(text, i) == SubSeq(text, i, i)

\* The first index from i on that holds no white space.
RECURSIVE SkipWhiteSpace(_, _)

SkipWhiteSpace(text, i) ==
    IF i <= Len(text) /\ CharAt(text, i) \in {" ", "\t", "\n"}
    THEN SkipWhiteSpace(text, i + 1)
    ELSE i

\* The digits from index i on, up to the first other character; acc is the
\* value so far, -1 before the first digit.  No digit at all gives NaN.
RECURSIVE ParseDigits(_, _, _, _)

ParseDigits(text, i, neg, acc) ==
    IF i <= Len(text) /\ DigitOf(CharAt(text, i)) >= 0
    THEN ParseDigits(text, i + 1, neg,
                     (IF acc < 0 THEN 0 ELSE acc * 10) + DigitOf(CharAt(text, i)))
    ELSE IF acc < 0 THEN NaN
    ELSE IF neg THEN Neg(FromInt(acc))
    ELSE FromInt(acc)

\* An optional sign and the digits.
ParseSigned(text, i) ==
    IF i <= Len(text) /\ CharAt(text, i) = "-" THEN ParseDigits(text, i + 1, TRUE, -1)
    ELSE IF i <= Len(text) /\ CharAt(text, i) = "+" THEN ParseDigits(text, i + 1, FALSE, -1)
    ELSE ParseDigits(text, i, FALSE, -1)

\* Number.parseInt(value, 10), for numerals below 2^30.
parseInt(value) == ParseSigned(value, SkipWhiteSpace(value, 1))

\* InRange without the upper bound.
InRangeUnbounded(num) == ~IsNaN(num) /\ Ge(num, FromInt(1))

\* !Number.isNaN(num) && num >= 1 && num <= 50
InRange(num) == ~IsNaN(num) /\ Ge(num, FromInt(1)) /\ Le(num, FromInt(50))

\* pokemonPerReset after updatePokemonPerReset has parsed num.
Accepted(p, num) == IF InRange(num) THEN num ELSE p.pokemonPerReset

updatePokemonPerReset(p, value) ==
    [p EXCEPT !.pokemonPerResetInput = value,
              !.pokemonPerReset = Accepted(p, parseInt(value))]

setPreset(p, value) ==
    [p EXCEPT !.pokemonPerReset = FromInt(value),
              !.pokemonPerResetInput = ToString(value)]

isPokemonPerResetValid(p) == InRange(parseInt(p.pokemonPerResetInput))

\* The input record computed builds.
PageInput(p) ==
    [method |-> p.method, shinyDonutLevel |-> p.shinyDonutLevel,
     alphaDonutLevel |-> p.alphaDonutLevel, shinyCharm |-> p.shinyCharm,
     pokemonPerReset |-> p.pokemonPerReset]

\* The events drawn: the level buttons clicked, the preset buttons, and the
\* texts the field is given.
ShinyLevelButtons == {0, 3}
AlphaLevelButtons == {0, 1}
Presets == {5, 10, 15, 20}
ValidTexts == {"1", "50", " 50", "50px", "1e3"}
InvalidTexts == {"", "abc", "0", "51", "-3"}
FieldTexts == ValidTexts \cup InvalidTexts

\* The inputs computed is given as long as pokemonPerReset is one of the
\* initial 10, the presets and the numbers of the valid texts.
PageInputs ==
    [method : Methods, shinyDonutLevel : ShinyLevelButtons \cup {3},
     alphaDonutLevel : AlphaLevelButtons \cup {0}, shinyCharm : BOOLEAN,
     pokemonPerReset : {FromInt(10)} \cup {FromInt(n) : n \in Presets}
                       \cup {parseInt(text) : text \in ValidTexts}]

\* computeHyperspaceTimes on these inputs.  A derived value is kept until an
\* input it read changes; the table is built once (@@ makes it explicit).
ComputedTable == [input \in PageInputs |-> computeHyperspaceTimes(input)] @@ <<>>

\* computeHyperspaceTimes(input), from the table where the table has it.
Derived(input) ==
    IF input \in DOMAIN ComputedTable THEN ComputedTable[input]
    ELSE computeHyperspaceTimes(input)

\* let computed = $derived.by(...): the call's outcome.
computed(p) == Derived(PageInput(p))

\* results reading the stored result whatever the field holds.
resultsStored(p) == Return(p.lastValidResult)

\* let results = $derived.by(...): the outcome of reading it.
results(p) ==
    IF isPokemonPerResetValid(p) THEN computed(p) ELSE Return(p.lastValidResult)

\* lastValidResult = computed; an error thrown by computed is uncaught.
Assigned(p, c) ==
    IF c.threw THEN [p EXCEPT !.uncaught = c, !.effectPending = FALSE]
    ELSE [p EXCEPT !.lastValidResult = c.value, !.effectPending = FALSE]

\* The $effect without the assignment.
EffectSkipped(p) == [p EXCEPT !.effectPending = FALSE]

\* The $effect.
Effect(p) ==
    IF isPokemonPerResetValid(p) THEN Assigned(p, computed(p))
    ELSE [p EXCEPT !.effectPending = FALSE]

\* The component as created: the effect has yet to run for the first time.
PageInit ==
    page = [method |-> "auto", shinyDonutLevel |-> 3, alphaDonutLevel |-> 0,
            shinyCharm |-> TRUE, pokemonPerReset |-> FromInt(10),
            pokemonPerResetInput |-> "10", lastValidResult |-> Null,
            uncaught |-> Null, effectPending |-> TRUE]

\* onclick of the two method buttons.
SelectMethod ==
    /\ ~page.effectPending
    /\ \E m \in Methods : page' = [page EXCEPT !.method = m, !.effectPending = TRUE]
    /\ UNCHANGED beyondPage

\* onclick of a shiny donut level button.
SelectShinyDonutLevel ==
    /\ ~page.effectPending
    /\ \E level \in ShinyLevelButtons :
        page' = [page EXCEPT !.shinyDonutLevel = level, !.effectPending = TRUE]
    /\ UNCHANGED beyondPage

\* onclick of an alpha donut level button.
SelectAlphaDonutLevel ==
    /\ ~page.effectPending
    /\ \E level \in AlphaLevelButtons :
        page' = [page EXCEPT !.alphaDonutLevel = level, !.effectPending = TRUE]
    /\ UNCHANGED beyondPage

\* onclick of the two charm buttons.
SelectShinyCharm ==
    /\ ~page.effectPending
    /\ \E charm \in BOOLEAN :
        page' = [page EXCEPT !.shinyCharm = charm, !.effectPending = TRUE]
    /\ UNCHANGED beyondPage

\* oninput of the field.
UpdatePokemonPerReset ==
    /\ ~page.effectPending
    /\ \E value \in FieldTexts :
        page' = [updatePokemonPerReset(page, value) EXCEPT !.effectPending = TRUE]
    /\ UNCHANGED beyondPage

\* onclick of a preset button.
SetPreset ==
    /\ ~page.effectPending
    /\ \E preset \in Presets :
        page' = [setPreset(page, preset) EXCEPT !.effectPending = TRUE]
    /\ UNCHANGED beyondPage

\* The effect runs.
RunEffect ==
    /\ page.effectPending
    /\ page' = Effect(page)
    /\ UNCHANGED beyondPage

PageNext ==
    \/ SelectMethod
    \/ SelectShinyDonutLevel
    \/ SelectAlphaDonutLevel
    \/ SelectShinyCharm
    \/ UpdatePokemonPerReset
    \/ SetPreset
    \/ RunEffect

(***************************************************************************)
(* utils/pokedex.ts: loadPokedex.  A load is the run of the async function  *)
(* assigned to loadPromise; loads[i] is the i-th load started and its       *)
(* promise, loadPromise the index of a load or 0 for null.                  *)
(***************************************************************************)
\* The callers of loadPokedex and the loads they may start at most.
MaxCallers == 2
MaxLoads == 2

Callers == 1 .. MaxCallers

\* A Pokemon[] value, to tell from null.
Array(items) == [type |-> "array", items |-> items]

Pokemon(name, regionalNumber) == [name |-> name, regionalNumber |-> regionalNumber]

\* What /pokedex.json and /hyperspace-pokedex.json may hold.
RegionalFiles ==
    {<<>>,
     <<Pokemon("chikorita", 1), Pokemon("bayleef", 2)>>,
     <<Pokemon("fletchling", 3), Pokemon("chikorita", 1)>>}
HyperspaceFiles ==
    {<<>>, <<Pokemon("mankey", 1), Pokemon("primeape", 2)>>}

\* Math.max(...regionalData.map((p) => p.regionalNumber))
RECURSIVE MaxRegional(_, _, _)

MaxRegional(regionalData, i, highest) ==
    IF i > Len(regionalData) THEN highest
    ELSE MaxRegional(regionalData, i + 1,
                     IF i = 1 \/ regionalData[i].regionalNumber > highest
                     THEN regionalData[i].regionalNumber ELSE highest)

lastRegionalNumber(regionalData) ==
    IF Len(regionalData) > 0 THEN MaxRegional(regionalData, 1, 0) ELSE 0

adjustedHyperspace(hyperspaceData, last) ==
    [i \in 1 .. Len(hyperspaceData) |->
        [hyperspaceData[i] EXCEPT !.regionalNumber = last + @]]

combined(regionalData, hyperspaceData) ==
    regionalData \o adjustedHyperspace(hyperspaceData, lastRegionalNumber(regionalData))

\* A call of loadPokedex: not made, awaiting the promise it got, or settled.
IdleCall == [state |-> "idle", promise |-> 0, value |-> Null]
PendingCall(promise) == [state |-> "pending", promise |-> promise, value |-> Null]
FulfilledCall(value) == [state |-> "fulfilled", promise |-> 0, value |-> value]
RejectedCall == [state |-> "rejected", promise |-> 0, value |-> Null]

\* A load: awaiting the fetches, awaiting one of the two json() calls with
\* the files fetched, or settled.
Load(step, regional, hyperspace, value) ==
    [step |-> step, regional |-> regional, hyperspace |-> hyperspace, value |-> value]

PokedexInit ==
    /\ cachedPokedex = Null
    /\ loadPromise = 0
    /\ loads = <<>>
    /\ loadCalls = [c \in Callers |-> IdleCall]

\* loadPokedex() up to its return, without the test of loadPromise.
CallLoadPokedexUnshared(c) ==
    /\ loadCalls[c].state = "idle"
    /\ IF cachedPokedex # Null
       THEN /\ loadCalls' = [loadCalls EXCEPT ![c] = FulfilledCall(cachedPokedex)]
            /\ UNCHANGED <<loadPromise, loads>>
       ELSE /\ Len(loads) < MaxLoads
            /\ loads' = Append(loads, Load("fetching", <<>>, <<>>, Null))
            /\ loadPromise' = Len(loads) + 1
            /\ loadCalls' = [loadCalls EXCEPT ![c] = PendingCall(Len(loads) + 1)]
    /\ UNCHANGED <<cachedPokedex, beyondPokedex>>

\* loadPokedex() up to its return: the cached list, the promise of the load
\* under way, or a new load, which issues the two fetches and loadTranslations
\* before its first await.
CallLoadPokedex(c) ==
    /\ loadCalls[c].state = "idle"
    /\ IF cachedPokedex # Null
       THEN /\ loadCalls' = [loadCalls EXCEPT ![c] = FulfilledCall(cachedPokedex)]
            /\ UNCHANGED <<loadPromise, loads>>
       ELSE IF loadPromise # 0
       THEN /\ loadCalls' = [loadCalls EXCEPT ![c] = PendingCall(loadPromise)]
            /\ UNCHANGED <<loadPromise, loads>>
       ELSE /\ Len(loads) < MaxLoads
            /\ loads' = Append(loads, Load("fetching", <<>>, <<>>, Null))
            /\ loadPromise' = Len(loads) + 1
            /\ loadCalls' = [loadCalls EXCEPT ![c] = PendingCall(Len(loads) + 1)]
    /\ UNCHANGED <<cachedPokedex, beyondPokedex>>

\* The catch block without the reset of loadPromise.
CaughtKept(i) ==
    /\ loads' = [loads EXCEPT ![i].step = "rejected"]
    /\ UNCHANGED <<cachedPokedex, loadPromise, loadCalls, beyondPokedex>>

\* The catch block: loadPromise = null; throw error.
Caught(i) ==
    /\ loads' = [loads EXCEPT ![i].step = "rejected"]
    /\ loadPromise' = 0
    /\ UNCHANGED <<cachedPokedex, loadCalls, beyondPokedex>>

\* Promise.all is fulfilled (loadTranslations never rejects): both responses
\* are there, each ok or not.  A response that is not ok throws.
FetchesFulfilled(i) ==
    /\ loads[i].step = "fetching"
    /\ \E regionalOk \in BOOLEAN, hyperspaceOk \in BOOLEAN :
        IF regionalOk /\ hyperspaceOk
        THEN /\ \E regional \in RegionalFiles, hyperspace \in HyperspaceFiles :
                   loads' = [loads EXCEPT ![i] =
                                Load("regionalJson", regional, hyperspace, Null)]
             /\ UNCHANGED <<cachedPokedex, loadPromise, loadCalls, beyondPokedex>>
        ELSE Caught(i)

\* A fetch rejects, and Promise.all with it.
FetchRejected(i) ==
    /\ loads[i].step = "fetching"
    /\ Caught(i)

\* await regionalResponse.json() is fulfilled.
RegionalJsonFulfilled(i) ==
    /\ loads[i].step = "regionalJson"
    /\ loads' = [loads EXCEPT ![i].step = "hyperspaceJson"]
    /\ UNCHANGED <<cachedPokedex, loadPromise, loadCalls, beyondPokedex>>

\* await hyperspaceResponse.json() is fulfilled: the lists are combined and
\* cached, and the load's promise is fulfilled.
HyperspaceJsonFulfilled(i) ==
    /\ loads[i].step = "hyperspaceJson"
    /\ cachedPokedex' = Array(combined(loads[i].regional, loads[i].hyperspace))
    /\ loads' = [loads EXCEPT ![i].step = "fulfilled",
                              ![i].value = Array(combined(loads[i].regional,
                                                          loads[i].hyperspace))]
    /\ UNCHANGED <<loadPromise, loadCalls, beyondPokedex>>

\* One of the json() calls rejects.
JsonRejected(i) ==
    /\ loads[i].step \in {"regionalJson", "hyperspaceJson"}
    /\ Caught(i)

\* The caller's await of the promise it got ends.
Settle(c) ==
    /\ loadCalls[c].state = "pending"
    /\ loads[loadCalls[c].promise].step \in {"fulfilled", "rejected"}
    /\ loadCalls' = [loadCalls EXCEPT ![c] =
                        IF loads[loadCalls[c].promise].step = "fulfilled"
                        THEN FulfilledCall(loads[loadCalls[c].promise].value)
                        ELSE RejectedCall]
    /\ UNCHANGED <<cachedPokedex, loadPromise, loads, beyondPokedex>>

\* The caller is done with the outcome; it may call again.
Forget(c) ==
    /\ loadCalls[c].state \in {"fulfilled", "rejected"}
    /\ loadCalls' = [loadCalls EXCEPT ![c] = IdleCall]
    /\ UNCHANGED <<cachedPokedex, loadPromise, loads, beyondPokedex>>

PokedexNext ==
    \/ \E c \in Callers : CallLoadPokedex(c)
    \/ \E i \in 1 .. Len(loads) : FetchesFulfilled(i)
    \/ \E i \in 1 .. Len(loads) : FetchRejected(i)
    \/ \E i \in 1 .. Len(loads) : RegionalJsonFulfilled(i)
    \/ \E i \in 1 .. Len(loads) : HyperspaceJsonFulfilled(i)
    \/ \E i \in 1 .. Len(loads) : JsonRejected(i)
    \/ \E c \in Callers : Settle(c)
    \/ \E c \in Callers : Forget(c)

(***************************************************************************)
(* utils/pokeapi.ts (part_005).  A URL is a string, "" where the API has    *)
(* null or no value and where the caller passes no fallbackUrl: all of      *)
(* these are falsy.                                                         *)
(***************************************************************************)
MaxSpriteCallers == 2
MaxQueries == 2

SpriteCallers == 1 .. MaxSpriteCallers
NationalNumbers == {25}
FallbackUrls == {"", "serebii.png"}

\* The data of a response: sprites.other.home present or not, its two URLs
\* and the two default URLs.
PokemonData(home, homeDefault, homeShiny, frontDefault, frontShiny) ==
    [type |-> "object", home |-> home, homeDefault |-> homeDefault,
     homeShiny |-> homeShiny, frontDefault |-> frontDefault, frontShiny |-> frontShiny]

\* What response.json() may give: Home and default sprites, a Home entry
\* without the shiny sprite, default sprites without the shiny one, no sprite
\* at all, and the JSON value null.
ApiData ==
    {PokemonData(TRUE, "home.png", "home-shiny.png", "front.png", "front-shiny.png"),
     PokemonData(TRUE, "home.png", "", "front.png", "front-shiny.png"),
     PokemonData(FALSE, "", "", "front.png", ""),
     PokemonData(FALSE, "", "", "", ""),
     Null}

\* `${nationalNumber}-${isShiny}`
cacheKey(nationalNumber, isShiny) == <<nationalNumber, isShiny>>

\* The Home sprite, "" without one.
HomeSprite(pokemonData, isShiny) ==
    IF ~pokemonData.home THEN ""
    ELSE IF isShiny THEN pokemonData.homeShiny
    ELSE pokemonData.homeDefault

\* The default sprite.
DefaultSprite(pokemonData, isShiny) ==
    IF isShiny THEN pokemonData.frontShiny ELSE pokemonData.frontDefault

\* spriteUrl of getPokemonSprite after its two attempts, for data that is an
\* object.
spriteUrl(pokemonData, isShiny) ==
    IF HomeSprite(pokemonData, isShiny) # "" THEN HomeSprite(pokemonData, isShiny)
    ELSE DefaultSprite(pokemonData, isShiny)

\* A call of getPokemonSprite: its arguments, where it stands, the data it
\* awaited and the value its promise is fulfilled with.
SpriteCall(state, nationalNumber, isShiny, fallbackUrl, pokemonData, value) ==
    [state |-> state, nationalNumber |-> nationalNumber, isShiny |-> isShiny,
     fallbackUrl |-> fallbackUrl, pokemonData |-> pokemonData, value |-> value]

IdleSpriteCall == SpriteCall("idle", 0, FALSE, "", Null, "")

\* The call with its state, data and value replaced.
Moved(c, state, pokemonData, value) ==
    [sprites EXCEPT !.calls[c].state = state, !.calls[c].pokemonData = pokemonData,
                    !.calls[c].value = value]

SpriteInit ==
    sprites = [spriteCache |-> <<>>, pokemonDataCache |-> <<>>, queries |-> 0,
               calls |-> [c \in SpriteCallers |-> IdleSpriteCall]]

\* The call has entered fetchPokemonData: the cached data, or the fetch.
Fetching(c, nationalNumber, isShiny, fallbackUrl) ==
    IF nationalNumber \in DOMAIN sprites.pokemonDataCache
    THEN sprites' = [sprites EXCEPT !.calls[c] =
                        SpriteCall("data", nationalNumber, isShiny, fallbackUrl,
                                   sprites.pokemonDataCache[nationalNumber], "")]
    ELSE /\ sprites.queries < MaxQueries
         /\ sprites' = [sprites EXCEPT !.queries = @ + 1,
                           !.calls[c] = SpriteCall("fetching", nationalNumber, isShiny,
                                                   fallbackUrl, Null, "")]

\* getPokemonSprite(nationalNumber, isShiny, fallbackUrl) up to its first
\* await, or to its return of the cached URL.
CallGetPokemonSprite(c) ==
    /\ sprites.calls[c].state = "idle"
    /\ \E nationalNumber \in NationalNumbers, isShiny \in BOOLEAN, fallbackUrl \in FallbackUrls :
        IF cacheKey(nationalNumber, isShiny) \in DOMAIN sprites.spriteCache
        THEN sprites' = [sprites EXCEPT !.calls[c] =
                            SpriteCall("fulfilled", nationalNumber, isShiny, fallbackUrl, Null,
                                       sprites.spriteCache[cacheKey(nationalNumber, isShiny)])]
        ELSE Fetching(c, nationalNumber, isShiny, fallbackUrl)
    /\ UNCHANGED beyondSprites

\* The catch block of getPokemonSprite without the fallback.
SpriteCaughtRethrown(c) == sprites' = Moved(c, "rejected", sprites.calls[c].pokemonData, "")

\* The catch block of getPokemonSprite, entered with the error rethrown by
\* fetchPokemonData or thrown in the try block.
SpriteCaught(c) ==
    IF sprites.calls[c].fallbackUrl # ""
    THEN sprites' = Moved(c, "fulfilled", sprites.calls[c].pokemonData,
                          sprites.calls[c].fallbackUrl)
    ELSE sprites' = Moved(c, "rejected", sprites.calls[c].pokemonData, "")

\* The fetch is fulfilled with a response, ok or not.
SpriteFetchFulfilled(c) ==
    /\ sprites.calls[c].state = "fetching"
    /\ \E ok \in BOOLEAN :
        IF ok THEN sprites' = Moved(c, "json", Null, "") ELSE SpriteCaught(c)
    /\ UNCHANGED beyondSprites

\* The fetch rejects.
SpriteFetchRejected(c) ==
    /\ sprites.calls[c].state = "fetching"
    /\ SpriteCaught(c)
    /\ UNCHANGED beyondSprites

\* response.json() is fulfilled: the data is cached and returned.
SpriteJsonFulfilled(c) ==
    /\ sprites.calls[c].state = "json"
    /\ \E data \in ApiData :
        sprites' = [Moved(c, "data", data, "") EXCEPT
                       !.pokemonDataCache = (sprites.calls[c].nationalNumber :> data) @@ @]
    /\ UNCHANGED beyondSprites

\* response.json() rejects.
SpriteJsonRejected(c) ==
    /\ sprites.calls[c].state = "json"
    /\ SpriteCaught(c)
    /\ UNCHANGED beyondSprites

\* The URL is cached and returned.
SpriteFound(c, url) ==
    sprites' = [Moved(c, "fulfilled", sprites.calls[c].pokemonData, url) EXCEPT
                   !.spriteCache = (cacheKey(sprites.calls[c].nationalNumber,
                                             sprites.calls[c].isShiny) :> url) @@ @]

\* getPokemonSprite after await fetchPokemonData(...): reading a property of
\* null throws a TypeError, and so does the function without a sprite and a
\* fallback.
SpriteResumed(c) ==
    /\ sprites.calls[c].state = "data"
    /\ IF sprites.calls[c].pokemonData = Null THEN SpriteCaught(c)
       ELSE IF spriteUrl(sprites.calls[c].pokemonData, sprites.calls[c].isShiny) # ""
       THEN SpriteFound(c, spriteUrl(sprites.calls[c].pokemonData, sprites.calls[c].isShiny))
       ELSE SpriteCaught(c)
    /\ UNCHANGED beyondSprites

\* The caller is done with the outcome; it may call again.
SpriteForgotten(c) ==
    /\ sprites.calls[c].state \in {"fulfilled", "rejected"}
    /\ sprites' = [sprites EXCEPT !.calls[c] = IdleSpriteCall]
    /\ UNCHANGED beyondSprites

SpriteNext ==
    \/ \E c \in SpriteCallers : CallGetPokemonSprite(c)
    \/ \E c \in SpriteCallers : SpriteFetchFulfilled(c)
    \/ \E c \in SpriteCallers : SpriteFetchRejected(c)
    \/ \E c \in SpriteCallers : SpriteJsonFulfilled(c)
    \/ \E c \in SpriteCallers : SpriteJsonRejected(c)
    \/ \E c \in SpriteCallers : SpriteResumed(c)
    \/ \E c \in SpriteCallers : SpriteForgotten(c)

(***************************************************************************)
(* routes/box/pokemon/[id]/+page.svelte: the search box and the load of the *)
(* Pokemon of the route.  An event handler runs to its end; Svelte then     *)
(* runs the effects whose dependencies it changed, in the order of their    *)
(* creation, before the next event.  goto() is asynchronous: $page changes  *)
(* when the navigation completes, after those effects, and a later goto     *)
(* replaces one that has not completed.  Names and queries are in lower     *)
(* case, as toLowerCase() leaves them.  The sprites are left out.           *)
(***************************************************************************)
MaxRequests == 4
MaxAwaiting == 2

\* A Pokemon of the pokedex.
Entry(name, nationalNumber, regionalNumber) ==
    [name |-> name, nationalNumber |-> nationalNumber, regionalNumber |-> regionalNumber]

\* The list loadPokedex() resolves to: eleven names hold an "a".
LoadedPokedex ==
    <<Entry("pikachu", 25, 31), Entry("raichu", 26, 32), Entry("abra", 63, 40),
      Entry("kadabra", 64, 41), Entry("alakazam", 65, 42), Entry("gastly", 92, 50),
      Entry("haunter", 93, 51), Entry("gengar", 94, 52), Entry("magikarp", 129, 60),
      Entry("gyarados", 130, 61), Entry("eevee", 133, 62), Entry("vaporeon", 134, 63),
      Entry("dratini", 147, 70)>>

\* The ids of the route: two of the pokedex, one that is not in it, and 0 for
\* a parameter that Number() turns into 0 or NaN.
RouteIds == {25, 26, 999, 0}

\* The texts typed and the values of the URL's q.
QueryTexts == {"", " ", "a", "pik"}

\* !query.trim()
IsBlank(query) == \A i \in 1 .. Len(query) : CharAt(query, i) \in {" ", "\t", "\n"}

\* text.includes(part)
Includes(text, part) ==
    \E i \in 0 .. Len(text) - Len(part) : SubSeq(text, i + 1, i + Len(part)) = part

Matches(pokemon, lowerQuery) == Includes(pokemon.name, lowerQuery)

searchPokemonByName(query, pokedex) ==
    IF IsBlank(query) THEN <<>>
    ELSE SelectSeq(pokedex, LAMBDA pokemon : Matches(pokemon, query))

\* results.slice(0, 10)
FirstTen(found) == SubSeq(found, 1, IF Len(found) < 10 THEN Len(found) ELSE 10)

\* pokedex.find((p) => p.nationalNumber === nationalNumber), null for
\* undefined.
getPokemonByNationalNumber(nationalNumber, pokedex) ==
    IF \E i \in 1 .. Len(pokedex) : pokedex[i].nationalNumber = nationalNumber
    THEN pokedex[CHOOSE i \in 1 .. Len(pokedex) :
                    /\ pokedex[i].nationalNumber = nationalNumber
                    /\ \A j \in 1 .. i - 1 : pokedex[j].nationalNumber # nationalNumber]
    ELSE Null

\* A navigation under way, and none.
Navigation(id, q) == [pending |-> TRUE, id |-> id, q |-> q]
NoNavigation == [pending |-> FALSE, id |-> 0, q |-> ""]

\* A timer set by setTimeout: searchTimeout is not null once set, and the
\* timer is pending until it fires or is cleared.
Timer(requestId) == [set |-> TRUE, pending |-> TRUE, requestId |-> requestId]
NoTimer == [set |-> FALSE, pending |-> FALSE, requestId |-> 0]

\* What awaits loadPokedex(): a searchPokemon invocation, or a run of the
\* load effect with its cancelled flag.
AwaitingSearch(query, requestId) ==
    [kind |-> "search", query |-> query, requestId |-> requestId, cancelled |-> FALSE]
AwaitingRun == [kind |-> "run", query |-> "", requestId |-> 0, cancelled |-> FALSE]

\* await loadPokedex(): the load starts unless one is under way.
Awaits(d, awaiter) ==
    [d EXCEPT !.loading = TRUE, !.awaiting = Append(@, awaiter)]

\* searchPokemon from the search on, without the two tests of requestId.
SearchedUnchecked(d, query, requestId) ==
    [d EXCEPT !.searchResults = FirstTen(searchPokemonByName(query, LoadedPokedex)),
              !.showDropdown = TRUE]

\* searchPokemon from the search on: pokedex is loaded.
Searched(d, query, requestId) ==
    IF requestId # d.searchRequestId THEN d
    ELSE [d EXCEPT !.searchResults = FirstTen(searchPokemonByName(query, LoadedPokedex)),
                   !.showDropdown = TRUE]

\* searchPokemon(query, requestId) up to its first await or its end.
searchPokemon(d, query, requestId) ==
    IF IsBlank(query) THEN [d EXCEPT !.searchResults = <<>>, !.showDropdown = FALSE]
    ELSE IF ~d.pokedex THEN Awaits(d, AwaitingSearch(query, requestId))
    ELSE Searched(d, query, requestId)

\* Looked without notFound = true for a Pokemon that is not in the pokedex.
LookedFoundOnly(d, pokemon) ==
    IF pokemon # Null
    THEN [d EXCEPT !.selectedPokemon = pokemon,
                   !.boxPosition = calculateBoxPosition(pokemon.regionalNumber),
                   !.isLoading = FALSE]
    ELSE [d EXCEPT !.selectedPokemon = Null, !.boxPosition = Null, !.isLoading = FALSE]

\* The load effect from the lookup on, with pokedex loaded, and its finally.
Looked(d, pokemon) ==
    IF pokemon # Null
    THEN [d EXCEPT !.selectedPokemon = pokemon,
                   !.boxPosition = calculateBoxPosition(pokemon.regionalNumber),
                   !.isLoading = FALSE]
    ELSE [d EXCEPT !.notFound = TRUE, !.selectedPokemon = Null, !.boxPosition = Null,
                   !.isLoading = FALSE]

\* The catch and finally blocks of the load effect for a run not cancelled.
LoadFailed(d) ==
    [d EXCEPT !.notFound = TRUE, !.selectedPokemon = Null, !.boxPosition = Null,
              !.isLoading = FALSE]

\* The cleanup of the load effect: the run before is cancelled.
Cancelled(awaiting) ==
    [i \in 1 .. Len(awaiting) |->
        IF awaiting[i].kind = "run" THEN [awaiting[i] EXCEPT !.cancelled = TRUE]
        ELSE awaiting[i]]

\* The load effect without its cleanup.
LoadEffectUncancelled(d) ==
    IF d.id = 0
    THEN [d EXCEPT !.showDropdown = FALSE, !.notFound = TRUE, !.isLoading = FALSE,
                   !.loadEffectPending = FALSE]
    ELSE IF ~d.pokedex
    THEN Awaits([d EXCEPT !.showDropdown = FALSE, !.isLoading = TRUE, !.notFound = FALSE,
                          !.loadEffectPending = FALSE], AwaitingRun)
    ELSE Looked([d EXCEPT !.showDropdown = FALSE, !.notFound = FALSE,
                          !.loadEffectPending = FALSE],
                getPokemonByNationalNumber(d.id, LoadedPokedex))

\* The load effect: the cleanup of the run before, and the run up to its
\* await or its end.
LoadEffect(d) == LoadEffectUncancelled([d EXCEPT !.awaiting = Cancelled(@)])

\* The URL effect once query differs from searchQuery.
Synced(d, query) ==
    IF query # ""
    THEN searchPokemon([d EXCEPT !.searchQuery = query, !.searchRequestId = @ + 1,
                                 !.urlEffectPending = FALSE],
                       query, d.searchRequestId + 1)
    ELSE [d EXCEPT !.searchQuery = query, !.searchResults = <<>>, !.showDropdown = FALSE,
                   !.urlEffectPending = FALSE]

\* The effect that takes searchQuery from the URL.
UrlEffect(d) ==
    IF d.urlQuery # d.searchQuery THEN Synced(d, d.urlQuery)
    ELSE [d EXCEPT !.urlEffectPending = FALSE]

\* handleSearchInput with target.value = value.
handleSearchInput(d, value) ==
    [d EXCEPT !.searchQuery = value, !.goto = Navigation(d.id, value),
              !.searchRequestId = @ + 1, !.searchTimeout = Timer(d.searchRequestId + 1),
              !.urlEffectPending = TRUE, !.lastHandler = "input", !.urlChanged = FALSE]

\* selectPokemon without clearTimeout.
selectPokemonTimerKept(d, pokemon) ==
    [d EXCEPT !.showDropdown = FALSE, !.searchRequestId = @ + 1,
              !.goto = Navigation(pokemon.nationalNumber, d.searchQuery),
              !.lastHandler = "select", !.urlChanged = FALSE]

selectPokemon(d, pokemon) ==
    [d EXCEPT !.showDropdown = FALSE, !.searchTimeout = NoTimer,
              !.searchRequestId = @ + 1,
              !.goto = Navigation(pokemon.nationalNumber, d.searchQuery),
              !.lastHandler = "select", !.urlChanged = FALSE]

\* clearSearch; its await tick() and focus() change nothing here.
clearSearch(d) ==
    [d EXCEPT !.searchQuery = "", !.searchResults = <<>>, !.showDropdown = FALSE,
              !.searchRequestId = @ + 1, !.goto = Navigation(d.id, ""),
              !.urlEffectPending = TRUE, !.lastHandler = "clear", !.urlChanged = FALSE]

\* One awaiter resumes with the list: it assigns pokedex and goes on.
Resumed(d, awaiter) ==
    IF awaiter.kind = "search"
    THEN Searched([d EXCEPT !.pokedex = TRUE], awaiter.query, awaiter.requestId)
    ELSE IF awaiter.cancelled THEN [d EXCEPT !.pokedex = TRUE]
    ELSE Looked([d EXCEPT !.pokedex = TRUE], getPokemonByNationalNumber(d.id, LoadedPokedex))

\* One awaiter resumes with the rejection.
Thrown(d, awaiter) ==
    IF awaiter.kind = "search"
    THEN [d EXCEPT !.searchResults = <<>>, !.showDropdown = FALSE]
    ELSE IF awaiter.cancelled THEN d
    ELSE LoadFailed(d)

\* The awaiters from the i-th on resume in the order of their awaits.
RECURSIVE AllResumed(_, _, _)

AllResumed(d, awaiting, i) ==
    IF i > Len(awaiting) THEN d
    ELSE AllResumed(Resumed(d, awaiting[i]), awaiting, i + 1)

RECURSIVE AllThrown(_, _, _)

AllThrown(d, awaiting, i) ==
    IF i > Len(awaiting) THEN d
    ELSE AllThrown(Thrown(d, awaiting[i]), awaiting, i + 1)

\* The component as created for /box/pokemon/25: both effects have yet to
\* run.  lastHandler and urlChanged record the last handler that ran and
\* whether the query of the URL has changed since.
DetailInit ==
    detail = [id |-> 25, urlQuery |-> "", goto |-> NoNavigation,
              selectedPokemon |-> Null, boxPosition |-> Null, isLoading |-> TRUE,
              notFound |-> FALSE, pokedex |-> FALSE,
              searchQuery |-> "", searchResults |-> <<>>, showDropdown |-> FALSE,
              searchTimeout |-> NoTimer, searchRequestId |-> 0,
              loading |-> FALSE, awaiting |-> <<>>,
              loadEffectPending |-> TRUE, urlEffectPending |-> TRUE,
              lastHandler |-> "none", urlChanged |-> FALSE]

\* No effect is due; the next event may be handled.
Idle == ~detail.loadEffectPending /\ ~detail.urlEffectPending

\* The handlers that take a request id, or lead an effect to take one, are
\* handled while the ids are below the bound.
RequestsLeft == detail.searchRequestId < MaxRequests

\* oninput of the search field.
HandleSearchInput ==
    /\ Idle /\ RequestsLeft
    /\ \E value \in QueryTexts \ {detail.searchQuery} :
        detail' = handleSearchInput(detail, value)
    /\ UNCHANGED beyondDetail

\* onclick of an entry of the dropdown.
SelectPokemon ==
    /\ Idle /\ RequestsLeft
    /\ detail.showDropdown
    /\ \E i \in 1 .. Len(detail.searchResults) :
        detail' = selectPokemon(detail, detail.searchResults[i])
    /\ UNCHANGED beyondDetail

\* onclick of the clear button, shown while searchQuery is not empty.
ClearSearch ==
    /\ Idle /\ RequestsLeft
    /\ detail.searchQuery # ""
    /\ detail' = clearSearch(detail)
    /\ UNCHANGED beyondDetail

\* handleClickOutside for a click outside the search container.
ClickOutside ==
    /\ Idle
    /\ detail.showDropdown
    /\ detail' = [detail EXCEPT !.showDropdown = FALSE, !.lastHandler = "outside",
                                !.urlChanged = FALSE]
    /\ UNCHANGED beyondDetail

\* The debounce timer fires: searchPokemon(searchQuery, requestId).
TimerFired ==
    /\ Idle
    /\ detail.searchTimeout.pending
    /\ detail.pokedex \/ Len(detail.awaiting) < MaxAwaiting
    /\ detail' = searchPokemon([detail EXCEPT !.searchTimeout.pending = FALSE],
                               detail.searchQuery, detail.searchTimeout.requestId)
    /\ UNCHANGED beyondDetail

\* A link or the browser's history starts a navigation.
Navigate ==
    /\ Idle /\ RequestsLeft
    /\ \E id \in RouteIds, q \in QueryTexts :
        detail' = [detail EXCEPT !.goto = Navigation(id, q)]
    /\ UNCHANGED beyondDetail

\* The navigation completes: $page has the new id and query.
NavigationCompleted ==
    /\ Idle
    /\ detail.goto.pending
    /\ detail' = [detail EXCEPT !.id = detail.goto.id, !.urlQuery = detail.goto.q,
                                !.goto = NoNavigation,
                                !.loadEffectPending = (detail.goto.id # detail.id),
                                !.urlEffectPending = TRUE,
                                !.urlChanged = (@ \/ detail.goto.q # detail.urlQuery)]
    /\ UNCHANGED beyondDetail

\* The load effect runs: pokemonId or pokedex has changed.
RunLoadEffect ==
    /\ detail.loadEffectPending
    /\ detail.pokedex \/ detail.id = 0 \/ Len(detail.awaiting) < MaxAwaiting
    /\ detail' = LoadEffect(detail)
    /\ UNCHANGED beyondDetail

\* The URL effect runs, after the load effect: $page or searchQuery has
\* changed.
RunUrlEffect ==
    /\ ~detail.loadEffectPending
    /\ detail.urlEffectPending
    /\ detail.pokedex \/ Len(detail.awaiting) < MaxAwaiting
    /\ detail' = UrlEffect(detail)
    /\ UNCHANGED beyondDetail

\* loadPokedex() is fulfilled: the awaiters resume, and pokedex, which the
\* load effect has read, has changed.
PokedexFulfilled ==
    /\ Idle
    /\ detail.loading
    /\ detail' = [AllResumed(detail, detail.awaiting, 1) EXCEPT
                     !.loading = FALSE, !.awaiting = <<>>,
                     !.loadEffectPending = (detail.id # 0)]
    /\ UNCHANGED beyondDetail

\* loadPokedex() is rejected: the awaiters resume in their catch blocks.
PokedexRejected ==
    /\ Idle
    /\ detail.loading
    /\ detail' = [AllThrown(detail, detail.awaiting, 1) EXCEPT
                     !.loading = FALSE, !.awaiting = <<>>]
    /\ UNCHANGED beyondDetail

DetailNext ==
    \/ HandleSearchInput
    \/ SelectPokemon
    \/ ClearSearch
    \/ ClickOutside
    \/ TimerFired
    \/ Navigate
    \/ NavigationCompleted
    \/ RunLoadEffect
    \/ RunUrlEffect
    \/ PokedexFulfilled
    \/ PokedexRejected

(***************************************************************************)
(* The service worker (src/service-worker.ts): the fetch listener and its  *)
(* respond(), with the cache the install listener has filled.               *)
(***************************************************************************)
\* Responses the network gives to a URL during one run.
MaxVersions == 2

\* The un-awaited cache.put calls that may be under way at once.
MaxPuts == 2

RequestMethods == {"GET", "POST"}

RequestUrls == {"/api/pokemon", "/app.js", "/box"}

\* A Response: its status and what its body says.
WorkerResponse(status, body) == [status |-> status, body |-> body]

\* response.ok
Ok(response) == response.status \in 200 .. 299

NetworkResponses ==
    {WorkerResponse(200, v) : v \in 1 .. MaxVersions}
        \cup {WorkerResponse(404, 0), WorkerResponse(500, 0)}

\* new Response('Offline', { status: 503 })
OfflineResponse == WorkerResponse(503, "Offline")

\* ASSETS: the files of the build and of static, which cache.addAll has
\* stored while the worker was installed.
ASSETS == {"/app.js"}

\* url.pathname.startsWith('/api/')
IsApi(url) == url = "/api/pokemon"

NoEvent == [method |-> "none", url |-> ""]

\* respond() settles: what event.respondWith has been given.
Settled(w, settled, response, from) ==
    [w EXCEPT !.pc = "idle", !.settled = settled, !.response = response, !.from = from]

\* if (response.ok) cache.put(event.request, response.clone()): the put is
\* not awaited.
Put(w, response) ==
    IF Ok(response)
    THEN [w EXCEPT !.puts = @ \cup {[url |-> w.event.url, response |-> response]}]
    ELSE w

\* The state when the worker has been installed and activated.
WorkerInit ==
    worker = [cache |-> [url \in RequestUrls |->
                            IF url \in ASSETS THEN WorkerResponse(200, 1) ELSE Null],
              puts |-> {}, event |-> NoEvent, pc |-> "idle",
              settled |-> "none", response |-> Null, from |-> "none",
              networkFailed |-> FALSE, missed |-> FALSE]

\* The fetch listener up to event.respondWith(respond()), where respond()
\* has run up to its first await; for a method other than GET it returns
\* before.
FetchListener(w, method, url) ==
    [w EXCEPT !.event = [method |-> method, url |-> url],
              !.pc = IF method # "GET" THEN "idle" ELSE "open",
              !.settled = IF method # "GET" THEN "none" ELSE "pending",
              !.response = Null, !.from = "none",
              !.networkFailed = FALSE, !.missed = FALSE]

\* A fetch event arrives; events are handled one after the other.
FetchEvent ==
    /\ worker.pc = "idle"
    /\ \E method \in RequestMethods, url \in RequestUrls :
        worker' = FetchListener(worker, method, url)
    /\ UNCHANGED beyondWorker

\* await caches.open(CACHE_NAME) is fulfilled.
CachesOpened ==
    /\ worker.pc = "open"
    /\ worker' = [worker EXCEPT !.pc = IF IsApi(worker.event.url) THEN "apiFetch" ELSE "match"]
    /\ UNCHANGED beyondWorker

\* await caches.open(CACHE_NAME) is rejected: the cache storage fails.
CachesOpenRejected ==
    /\ worker.pc = "open"
    /\ worker' = Settled(worker, "rejected", Null, "none")
    /\ UNCHANGED beyondWorker

\* /api/: await fetch(event.request) is fulfilled.
ApiNetworkFulfilled ==
    /\ worker.pc = "apiFetch"
    /\ Cardinality(worker.puts) < MaxPuts
    /\ \E response \in NetworkResponses :
        worker' = Settled(Put(worker, response), "fulfilled", response, "network")
    /\ UNCHANGED beyondWorker

\* /api/: await fetch(event.request) is rejected; the catch block starts.
ApiNetworkRejected ==
    /\ worker.pc = "apiFetch"
    /\ worker' = [worker EXCEPT !.pc = "apiMatch", !.networkFailed = TRUE]
    /\ UNCHANGED beyondWorker

\* /api/: await cache.match(event.request) in the catch block is fulfilled.
ApiMatched ==
    /\ worker.pc = "apiMatch"
    /\ worker' = IF worker.cache[worker.event.url] # Null
                 THEN Settled(worker, "fulfilled", worker.cache[worker.event.url], "cache")
                 ELSE [worker EXCEPT !.pc = "match"]
    /\ UNCHANGED beyondWorker

\* await cache.match(event.request) is fulfilled.
Matched ==
    /\ worker.pc = "match"
    /\ worker' = IF worker.cache[worker.event.url] # Null
                 THEN Settled(worker, "fulfilled", worker.cache[worker.event.url], "cache")
                 ELSE [worker EXCEPT !.pc = "fetch", !.missed = TRUE]
    /\ UNCHANGED beyondWorker

\* await cache.match(event.request) is rejected, in the catch block of the
\* /api/ branch or after it.
MatchRejected ==
    /\ worker.pc \in {"apiMatch", "match"}
    /\ worker' = Settled(worker, "rejected", Null, "none")
    /\ UNCHANGED beyondWorker

\* await fetch(event.request) is fulfilled.
NetworkFulfilled ==
    /\ worker.pc = "fetch"
    /\ Cardinality(worker.puts) < MaxPuts
    /\ \E response \in NetworkResponses :
        worker' = Settled(Put(worker, response), "fulfilled", response, "network")
    /\ UNCHANGED beyondWorker

\* await fetch(event.request) is rejected: the catch block returns the
\* 'Offline' response.
NetworkRejected ==
    /\ worker.pc = "fetch"
    /\ worker' = Settled([worker EXCEPT !.networkFailed = TRUE],
                         "fulfilled", OfflineResponse, "offline")
    /\ UNCHANGED beyondWorker

\* A cache.put under way stores its response.
PutFulfilled ==
    /\ \E put \in worker.puts :
        worker' = [worker EXCEPT !.cache[put.url] = put.response, !.puts = @ \ {put}]
    /\ UNCHANGED beyondWorker

\* A cache.put under way fails; nothing awaits it.
PutRejected ==
    /\ \E put \in worker.puts :
        worker' = [worker EXCEPT !.puts = @ \ {put}]
    /\ UNCHANGED beyondWorker

WorkerNext ==
    \/ FetchEvent
    \/ CachesOpened
    \/ CachesOpenRejected
    \/ ApiNetworkFulfilled
    \/ ApiNetworkRejected
    \/ ApiMatched
    \/ Matched
    \/ MatchRejected
    \/ NetworkFulfilled
    \/ NetworkRejected
    \/ PutFulfilled
    \/ PutRejected

(***************************************************************************)
(* The language setting (src/lib/i18n/index.ts): the locale store of       *)
(* svelte-i18n and the preference kept in localStorage.                     *)
(***************************************************************************)
\* Calls of setLanguage in one run.
MaxSetLanguage == 3

\* What localStorage.getItem(STORAGE_KEY) may return when the module is
\* loaded; "null" stands for null, no preference stored.
StoredPreferences == {"null", "en", "fr", "de"}

\* What getLocaleFromNavigator() may return; "null" stands for no language.
BrowserLanguages == {"null", "en-US", "fr", "fr-FR", "de"}

Languages == {"en", "fr"}

\* browserLang?.startsWith('fr')
StartsWithFr(browserLang) == browserLang \in {"fr", "fr-FR"}

\* getInitialLocale()
getInitialLocale(window, stored, browserLang) ==
    IF ~window THEN "en"
    ELSE IF stored = "en" \/ stored = "fr" THEN stored
    ELSE IF StartsWithFr(browserLang) THEN "fr"
    ELSE "en"

\* getCurrentLanguage()
getCurrentLanguage(l) ==
    IF ~l.window THEN "en"
    ELSE IF l.stored = "en" \/ l.stored = "fr" THEN l.stored
    ELSE "en"

\* setLanguage(newLocale)
setLanguage(l, newLocale) ==
    IF l.window
    THEN [l EXCEPT !.stored = newLocale, !.locale = newLocale, !.sets = @ + 1,
                   !.returned = "none"]
    ELSE [l EXCEPT !.sets = @ + 1, !.returned = "none"]

\* The module has not been loaded yet.
I18nInit ==
    i18n = [loaded |-> FALSE, window |-> FALSE, stored |-> "null", browserLang |-> "null",
            locale |-> "null", sets |-> 0, returned |-> "none"]

\* The module is loaded, on the server or in a browser: init() with
\* initialLocale: getInitialLocale().
LoadI18n ==
    /\ ~i18n.loaded
    /\ \E window \in BOOLEAN, stored \in StoredPreferences, browserLang \in BrowserLanguages :
        i18n' = [i18n EXCEPT !.loaded = TRUE, !.window = window, !.stored = stored,
                             !.browserLang = browserLang,
                             !.locale = getInitialLocale(window, stored, browserLang)]
    /\ UNCHANGED beyondI18n

\* The language toggle calls setLanguage.
SetLanguage ==
    /\ i18n.loaded
    /\ i18n.sets < MaxSetLanguage
    /\ \E newLocale \in Languages : i18n' = setLanguage(i18n, newLocale)
    /\ UNCHANGED beyondI18n

\* getLocalizedPokemonName or getLocalizedTypes calls getCurrentLanguage.
GetCurrentLanguage ==
    /\ i18n.loaded
    /\ i18n.returned = "none"
    /\ i18n' = [i18n EXCEPT !.returned = getCurrentLanguage(i18n)]
    /\ UNCHANGED beyondI18n

I18nNext ==
    \/ LoadI18n
    \/ SetLanguage
    \/ GetCurrentLanguage

(***************************************************************************)
(* Calls of the pure functions.                                             *)
(***************************************************************************)
CalculatorInit ==
    /\ call = NoCall
    /\ outcome = NoOutcome

Init ==
    /\ CalculatorInit
    /\ PageInit
    /\ PokedexInit
    /\ SpriteInit
    /\ DetailInit
    /\ WorkerInit
    /\ I18nInit

CallComputeHyperspaceTimes ==
    /\ call = NoCall
    /\ \E input \in CalculatorInputs :
        /\ call' = [fn |-> "computeHyperspaceTimes", input |-> input]
        /\ outcome' = computeHyperspaceTimes(input)
    /\ UNCHANGED beyondCalculator

CallComputeTimeForConfidence ==
    /\ call = NoCall
    /\ \E c \in SolverConfidences, r \in SolverRates, k \in SolverPerReset,
       p \in SolverProbabilities :
        /\ call' = [fn |-> "computeTimeForConfidence", confidence |-> c,
                    resetsPerMinute |-> r, pokemonPerReset |-> k,
                    shinyProbability |-> p]
        /\ outcome' = Return(computeTimeForConfidence(c, r, k, p))
    /\ UNCHANGED beyondCalculator

CallComputeAverageTime ==
    /\ call = NoCall
    /\ \E r \in SolverRates, k \in SolverPerReset, p \in SolverProbabilities :
        /\ call' = [fn |-> "computeAverageTime", resetsPerMinute |-> r,
                    pokemonPerReset |-> k, shinyProbability |-> p]
        /\ outcome' = Return(computeAverageTime(r, k, p))
    /\ UNCHANGED beyondCalculator

CallComputeEncountersForConfidence ==
    /\ call = NoCall
    /\ \E c \in SolverConfidences, p \in SolverProbabilities :
        /\ call' = [fn |-> "computeEncountersForConfidence", confidence |-> c,
                    shinyProbability |-> p]
        /\ outcome' = Return(computeEncountersForConfidence(c, p))
    /\ UNCHANGED beyondCalculator

CallComputeAverageEncounters ==
    /\ call = NoCall
    /\ \E p \in SolverProbabilities :
        /\ call' = [fn |-> "computeAverageEncounters", shinyProbability |-> p]
        /\ outcome' = Return(computeAverageEncounters(p))
    /\ UNCHANGED beyondCalculator

CallFormatDuration ==
    /\ call = NoCall
    /\ \E minutes \in DurationArguments :
        /\ call' = [fn |-> "formatDuration", minutes |-> minutes]
        /\ outcome' = Return(formatDuration(minutes))
    /\ UNCHANGED beyondCalculator

CallFormatEncounters ==
    /\ call = NoCall
    /\ \E count \in CountArguments :
        /\ call' = [fn |-> "formatEncounters", count |-> count]
        /\ outcome' = Return(formatEncounters(count))
    /\ UNCHANGED beyondCalculator

CallGetShinyProbability ==
    /\ call = NoCall
    /\ \E charmOn \in BOOLEAN, sparklingLevel \in DonutLevels :
        /\ call' = [fn |-> "getShinyProbability", charmOn |-> charmOn,
                    sparklingLevel |-> sparklingLevel]
        /\ outcome' = Return(getShinyProbability(charmOn, sparklingLevel))
    /\ UNCHANGED beyondCalculator

CallGetAlphaProbability ==
    /\ call = NoCall
    /\ \E level \in DonutLevels :
        /\ call' = [fn |-> "getAlphaProbability", level |-> level]
        /\ outcome' = Return(getAlphaProbability(level))
    /\ UNCHANGED beyondCalculator

CallCalculateBoxPosition ==
    /\ call = NoCall
    /\ \E regionalNumber \in RegionalNumbers :
        /\ call' = [fn |-> "calculateBoxPosition", regionalNumber |-> regionalNumber]
        /\ outcome' = Return(calculateBoxPosition(regionalNumber))
    /\ UNCHANGED beyondCalculator

\* The caller has the outcome and goes on; it may call again.
ReturnToCaller ==
    /\ call # NoCall
    /\ call' = NoCall
    /\ outcome' = NoOutcome
    /\ UNCHANGED beyondCalculator

Next ==
    \/ CallComputeHyperspaceTimes
    \/ CallComputeTimeForConfidence
    \/ CallComputeAverageTime
    \/ CallComputeEncountersForConfidence
    \/ CallComputeAverageEncounters
    \/ CallFormatDuration
    \/ CallFormatEncounters
    \/ CallGetShinyProbability
    \/ CallGetAlphaProbability
    \/ CallCalculateBoxPosition
    \/ ReturnToCaller

Spec == Init /\ [][Next]_vars

\* The page alone, and loadPokedex alone.
PageSpec == Init /\ [][PageNext]_vars

PokedexSpec == Init /\ [][PokedexNext]_vars

\* getPokemonSprite alone.
SpriteSpec == Init /\ [][SpriteNext]_vars

\* The Pokemon detail page alone.
DetailSpec == Init /\ [][DetailNext]_vars
WorkerSpec == Init /\ [][WorkerNext]_vars
I18nSpec == Init /\ [][I18nNext]_vars

(***************************************************************************)
(* Properties of computeHyperspaceTimes and of the solver functions.        *)
(***************************************************************************)
\* A call of computeHyperspaceTimes has ended.
Called == call.fn = "computeHyperspaceTimes"
\* A call of computeHyperspaceTimes has returned a result.
Returned == Called /\ ~outcome.threw

\* pokemonPerReset is in the range the caller validates, 1 to 50.
InDomain == call.input.pokemonPerReset \in DomainPokemonPerReset

\* Each primary time with its compound counterpart.
TimePairs ==
    {<<"t50", "t50Shalpha">>, <<"t90", "t90Shalpha">>, <<"t95", "t95Shalpha">>,
     <<"t99", "t99Shalpha">>, <<"tAvg", "tAvgShalpha">>}

\* The names of the primary time and encounter outputs.
PrimaryTimes == {"t50", "t90", "t95", "t99", "tAvg"}
PrimaryEncounters ==
    {"encounters50", "encounters90", "encounters95", "encounters99", "encountersAvg"}

\* Each time output with the encounter count of the same quantity.
PrimaryQuantities ==
    {<<"t50", "encounters50">>, <<"t90", "encounters90">>, <<"t95", "encounters95">>,
     <<"t99", "encounters99">>, <<"tAvg", "encountersAvg">>}
CompoundQuantities ==
    {<<"t50Shalpha", "encounters50Shalpha">>, <<"t90Shalpha", "encounters90Shalpha">>,
     <<"t95Shalpha", "encounters95Shalpha">>, <<"t99Shalpha", "encounters99Shalpha">>,
     <<"tAvgShalpha", "encountersAvgShalpha">>}

\* The names of the compound outputs and of their formatted strings.
CompoundTimes == {"t50Shalpha", "t90Shalpha", "t95Shalpha", "t99Shalpha", "tAvgShalpha"}
CompoundEncounters ==
    {"encounters50Shalpha", "encounters90Shalpha", "encounters95Shalpha",
     "encounters99Shalpha", "encountersAvgShalpha"}
CompoundFormatted ==
    {"t50ShalphaFormatted", "t90ShalphaFormatted", "t95ShalphaFormatted",
     "t99ShalphaFormatted", "tAvgShalphaFormatted",
     "encounters50ShalphaFormatted", "encounters90ShalphaFormatted",
     "encounters95ShalphaFormatted", "encounters99ShalphaFormatted",
     "encountersAvgShalphaFormatted"}

\* C1: computeHyperspaceTimes throws exactly when pokemonPerReset is NaN,
\* +Infinity, -Infinity or <= 0; for every other input (a finite
\* pokemonPerReset > 0) it returns a result.
C1_ThrowsIffInvalid ==
    Called =>
        (outcome.threw <=>
            \/ IsNaN(call.input.pokemonPerReset)
            \/ IsInf(call.input.pokemonPerReset)
            \/ Le(call.input.pokemonPerReset, Zero))

\* computeHyperspaceTimes has thrown for pokemonPerReset = +Infinity.
C1_Witness ==
    /\ Called
    /\ call.input.pokemonPerReset = Infinity
    /\ outcome = Throw("pokemonPerReset must be a positive number")

\* C2: with alphaDonutLevel = 0, every result has its ten compound outputs
\* equal to +Infinity, its ten compound formatted strings equal to the
\* placeholder, and shalphaProbability exactly 0.
C2_CompoundOffIsInfinity ==
    (Returned /\ call.input.alphaDonutLevel = 0) =>
        /\ \A f \in CompoundTimes \cup CompoundEncounters : outcome.value[f] = Infinity
        /\ \A f \in CompoundFormatted : outcome.value[f] = EmDash
        /\ outcome.value.shalphaProbability = Zero

\* A result for alphaDonutLevel = 0 whose primary t99 is finite and whose
\* compound t99 is +Infinity.
C2_Witness ==
    /\ Returned
    /\ call.input.alphaDonutLevel = 0
    /\ isFinite(outcome.value.t99)
    /\ outcome.value.t99Shalpha = Infinity
    /\ outcome.value.t99ShalphaFormatted = EmDash

\* C3 as stated: with alphaDonutLevel in 1..3 and any pokemonPerReset > 0,
\* shalphaProbability > 0, the ten compound outputs are finite and each
\* compound time is strictly greater than the corresponding primary time.
C3_Original ==
    (Returned /\ call.input.alphaDonutLevel > 0) =>
        /\ Gt(outcome.value.shalphaProbability, Zero)
        /\ \A f \in CompoundTimes \cup CompoundEncounters : isFinite(outcome.value[f])
        /\ \A pr \in TimePairs : Gt(outcome.value[pr[2]], outcome.value[pr[1]])

\* C3, amended: with alphaDonutLevel in 1..3, shalphaProbability > 0 and the
\* five compound encounter counts are finite for every pokemonPerReset > 0;
\* for pokemonPerReset in the caller's range 1..50 the five compound times are
\* finite as well and each is strictly greater than the corresponding primary
\* time.
C3_CompoundOnIsFinite ==
    (Returned /\ call.input.alphaDonutLevel > 0) =>
        /\ Gt(outcome.value.shalphaProbability, Zero)
        /\ \A f \in CompoundEncounters : isFinite(outcome.value[f])
        /\ InDomain =>
            /\ \A f \in CompoundTimes : isFinite(outcome.value[f])
            /\ \A pr \in TimePairs : Gt(outcome.value[pr[2]], outcome.value[pr[1]])

\* A result for alphaDonutLevel = 1 and pokemonPerReset = 50 whose compound
\* t99 is finite and above the primary t99.
C3_Witness ==
    /\ Returned
    /\ call.input.alphaDonutLevel = 1
    /\ call.input.pokemonPerReset = FromInt(50)
    /\ isFinite(outcome.value.t99Shalpha)
    /\ Gt(outcome.value.t99Shalpha, outcome.value.t99)

\* C4: the reported shalphaProbability equals getShinyProbability(charm,
\* shinyLevel) * getAlphaProbability(alphaLevel) and is at most the reported
\* shinyProbability, for every charm and levels.
C4_CompoundProbability ==
    Returned =>
        /\ Eq(outcome.value.shalphaProbability,
              Mul(getShinyProbability(call.input.shinyCharm, call.input.shinyDonutLevel),
                  getAlphaProbability(call.input.alphaDonutLevel)))
        /\ Le(outcome.value.shalphaProbability, outcome.value.shinyProbability)

\* A result for alphaDonutLevel = 2 whose shalphaProbability is positive and
\* below its shinyProbability.
C4_Witness ==
    /\ Returned
    /\ call.input.alphaDonutLevel = 2
    /\ Gt(outcome.value.shalphaProbability, Zero)
    /\ Lt(outcome.value.shalphaProbability, outcome.value.shinyProbability)

\* v[a] < v[b] < v[c] < v[d].
Increasing(v, a, b, c, d) == Lt(v[a], v[b]) /\ Lt(v[b], v[c]) /\ Lt(v[c], v[d])

LargerCounts(k) == {n \in DomainCounts : Lt(k, FromInt(n))}
NextCount(k) == {n \in LargerCounts(k) : \A o \in LargerCounts(k) : n <= o}

\* The inputs that differ from input in throughput alone and have more of it:
\* method 'auto' instead of 'manual', or the next larger pokemonPerReset of the
\* caller's range (the larger ones follow, < and = being transitive).
HigherThroughput(input) ==
    {[input EXCEPT !.method = "auto"] : m \in {input.method} \ {"auto"}} \cup
    {[input EXCEPT !.pokemonPerReset = FromInt(n)] : n \in NextCount(input.pokemonPerReset)}

\* Result w has every finite time of result v strictly smaller, and the same
\* encounter counts and probabilities.
FasterSameCounts(v, w) ==
    /\ \A f \in PrimaryTimes \cup CompoundTimes : isFinite(v[f]) => Lt(w[f], v[f])
    /\ \A f \in PrimaryEncounters \cup CompoundEncounters : w[f] = v[f]
    /\ w.shinyProbability = v.shinyProbability
    /\ w.shalphaProbability = v.shalphaProbability

ClaimedRate(method) == IF method = "auto" THEN 25 ELSE 10

\* C7: encountersPerMinute equals resetsPerMinute * pokemonPerReset, with
\* resetsPerMinute 25 for 'auto' and 10 for 'manual'; for pokemonPerReset = n
\* in 1..50 it is the integer 25 n or 10 n.
C7_EncountersPerMinute ==
    Returned =>
        /\ outcome.value.encountersPerMinute =
               Mul(FromInt(ClaimedRate(call.input.method)), call.input.pokemonPerReset)
        /\ \A n \in DomainCounts :
               call.input.pokemonPerReset = FromInt(n) =>
                   outcome.value.encountersPerMinute =
                       FromInt(ClaimedRate(call.input.method) * n)

\* A result for method 'auto' and pokemonPerReset = 10 with encountersPerMinute
\* 250.
C7_Witness ==
    /\ Returned
    /\ call.input.method = "auto"
    /\ call.input.pokemonPerReset = FromInt(10)
    /\ outcome.value.encountersPerMinute = FromInt(250)

\* The pairs of a time and an encounter count that result v relates.
RelatedQuantities(alphaDonutLevel) ==
    IF alphaDonutLevel > 0 THEN PrimaryQuantities \cup CompoundQuantities
    ELSE PrimaryQuantities

\* C8 as stated: tX * encountersPerMinute = encountersX for X in 50, 90, 95,
\* 99, Avg, and for the compound outputs when alphaDonutLevel > 0.
C8_Original ==
    (Returned /\ InDomain) =>
        \A q \in RelatedQuantities(call.input.alphaDonutLevel) :
            Eq(Mul(outcome.value[q[1]], outcome.value.encountersPerMinute),
               outcome.value[q[2]])

\* |x|.
Abs(x) == IF IsNaN(x) THEN x ELSE [x EXCEPT !.neg = FALSE]
\* 2^(3 - Precision): eight units in the last place of a significand.
Rounding == Fin(FALSE, Pow2(Precision - 1), (3 - Precision) - (Precision - 1))
\* a and b > 0 are equal up to rounding: |a - b| <= b * 2^(3 - Precision).
Close(a, b) == Le(Abs(Sub(a, b)), Mul(b, Rounding))

\* C8, amended: tX * encountersPerMinute equals encountersX up to the rounding
\* of the floating-point operations (a relative difference of at most eight
\* units in the last place), for X in 50, 90, 95, 99, Avg, and for the
\* compound outputs when alphaDonutLevel > 0.
C8_TimeTimesRateIsCount ==
    (Returned /\ InDomain) =>
        \A q \in RelatedQuantities(call.input.alphaDonutLevel) :
            Close(Mul(outcome.value[q[1]], outcome.value.encountersPerMinute),
                  outcome.value[q[2]])

\* A result for alphaDonutLevel = 3 and pokemonPerReset = 49 where
\* t99 * encountersPerMinute is close to encounters99 and differs from it.
C8_Witness ==
    /\ Returned
    /\ call.input.alphaDonutLevel = 3
    /\ call.input.pokemonPerReset = FromInt(49)
    /\ Close(Mul(outcome.value.t99, outcome.value.encountersPerMinute),
             outcome.value.encounters99)
    /\ ~Eq(Mul(outcome.value.t99, outcome.value.encountersPerMinute),
           outcome.value.encounters99)

OutsideUnit(x) == Le(x, Zero) \/ Ge(x, One)
NotPositive(x) == Le(x, Zero)

\* C10: each of the four solver functions returns +Infinity (and does not
\* throw, nor return 0, a negative number or NaN) when one of its parameters is
\* degenerate: p <= 0, p >= 1, C <= 0, C >= 1, resetsPerMinute <= 0 or
\* pokemonPerReset <= 0.
C10_DegenerateIsInfinity ==
    /\ (/\ call.fn = "computeTimeForConfidence"
        /\ \/ OutsideUnit(call.shinyProbability)
           \/ OutsideUnit(call.confidence)
           \/ NotPositive(call.resetsPerMinute)
           \/ NotPositive(call.pokemonPerReset))
       => outcome = Return(Infinity)
    /\ (/\ call.fn = "computeAverageTime"
        /\ \/ OutsideUnit(call.shinyProbability)
           \/ NotPositive(call.resetsPerMinute)
           \/ NotPositive(call.pokemonPerReset))
       => outcome = Return(Infinity)
    /\ (/\ call.fn = "computeEncountersForConfidence"
        /\ \/ OutsideUnit(call.shinyProbability)
           \/ OutsideUnit(call.confidence))
       => outcome = Return(Infinity)
    /\ (/\ call.fn = "computeAverageEncounters"
        /\ OutsideUnit(call.shinyProbability))
       => outcome = Return(Infinity)

\* computeAverageTime has returned +Infinity for resetsPerMinute = -10 with a
\* probability inside (0, 1) and a positive pokemonPerReset.
C10_Witness ==
    /\ call.fn = "computeAverageTime"
    /\ call.resetsPerMinute = FromInt(-10)
    /\ call.pokemonPerReset = FromInt(10)
    /\ call.shinyProbability = Lit(1, 2)
    /\ outcome = Return(Infinity)

(***************************************************************************)
(* Properties of the formatters, the lookups and calculateBoxPosition.      *)
(***************************************************************************)
\* The text ends with the suffix.
EndsWith(text, suffix) ==
    /\ Len(text) >= Len(suffix)
    /\ SubSeq(text, Len(text) - Len(suffix) + 1, Len(text)) = suffix

\* The three forms of a duration of m minutes and s seconds.
ClaimedDuration(m, s) ==
    IF m = 0 THEN ToString(s) \o "s"
    ELSE IF s = 0 THEN ToString(m) \o "m"
    ELSE ToString(m) \o "m " \o ToString(s) \o "s"

\* The seconds the text renders, or leaves out as 0, are in 0..59.
SecondsInRange(text) ==
    \E s \in 0 .. 59 :
        \/ text = ToString(s) \o "s"
        \/ EndsWith(text, "m " \o ToString(s) \o "s")
        \/ s = 0 /\ EndsWith(text, "m")

\* The text is the claimed one for total seconds.
IsDurationOf(text, total) ==
    \E s \in 0 .. 59 :
        /\ total >= s
        /\ (total - s) % 60 = 0
        /\ text = ClaimedDuration((total - s) \div 60, s)

\* C11: formatDuration(minutes) returns the placeholder exactly when minutes
\* is non-finite or negative; otherwise, with total = round(minutes * 60),
\* m = floor(total / 60) and s = total mod 60, it returns "{s}s" when m = 0,
\* "{m}m" when m > 0 and s = 0, and "{m}m {s}s" otherwise; the rendered
\* seconds are always in 0..59 and m * 60 + s = total.
C11_FormatDuration ==
    call.fn = "formatDuration" =>
        IF ~isFinite(call.minutes) \/ Lt(call.minutes, Zero)
        THEN outcome.value = EmDash
        ELSE /\ outcome.value # EmDash
             /\ SecondsInRange(outcome.value)
             /\ isFinite(Mul(call.minutes, FromInt(60))) =>
                    IsDurationOf(outcome.value, MathRound(Mul(call.minutes, FromInt(60))))

\* The numbers of tenths t with t/10 nearest to n/unit, both on a tie.
NearestTenths(n, unit) ==
    {t \in ((10 * n) \div unit) - 1 .. ((10 * n) \div unit) + 1 :
        /\ 2 * (10 * n - t * unit) <= unit
        /\ 2 * (t * unit - 10 * n) <= unit}

\* t/10 with one decimal place, a trailing ".0" stripped.
OneDecimal(t) ==
    IF t % 10 = 0 THEN ToString(t \div 10)
    ELSE ToString(t \div 10) \o "." \o ToString(t % 10)

\* The text is the claimed one for the rounded count n.
IsCountOf(text, n) ==
    IF n < 10000 THEN text = ToString(n)
    ELSE IF n < 1000000
    THEN \E t \in NearestTenths(n, 1000) : text = OneDecimal(t) \o "k"
    ELSE \E t \in NearestTenths(n, 1000000) : text = OneDecimal(t) \o "M"

ClaimedOdds(charmOn, level) ==
    IF charmOn
    THEN ((0 :> 102438) @@ (1 :> 81960) @@ (2 :> 68308) @@ (3 :> 58557))[level]
    ELSE ((0 :> 409600) @@ (1 :> 204825) @@ (2 :> 136567) @@ (3 :> 102438))[level]

\* C13: getShinyProbability(charmOn, level) returns 1/1024.38, 1/819.60,
\* 1/683.08, 1/585.57 for charm on and 1/4096.0, 1/2048.25, 1/1365.67,
\* 1/1024.38 for charm off at levels 0..3; for each charm state the value
\* strictly increases with the level, and at every level the charm-on value
\* is strictly greater than the charm-off value.
C13_ShinyTable ==
    call.fn = "getShinyProbability" =>
        /\ outcome.value =
               Div(One, Div(FromInt(ClaimedOdds(call.charmOn, call.sparklingLevel)),
                            FromInt(100)))
        /\ \A higher \in DonutLevels :
               higher > call.sparklingLevel =>
                   Lt(outcome.value, getShinyProbability(call.charmOn, higher))
        /\ call.charmOn =>
               Gt(outcome.value, getShinyProbability(FALSE, call.sparklingLevel))

\* getShinyProbability(true, 1) has returned 1/819.60, above the value for
\* charm off at level 1.
C13_Witness ==
    /\ call.fn = "getShinyProbability"
    /\ call.charmOn
    /\ call.sparklingLevel = 1
    /\ outcome.value = Div(One, Lit(81960, 100))
    /\ Gt(outcome.value, getShinyProbability(FALSE, 1))

\* Strictly between 0 and 1.
InsideUnit(x) == Gt(x, Zero) /\ Lt(x, One)

\* C14 as claimed: for every level 0..3 and both charm states, the primary
\* probability from getShinyProbability, the secondary probability from
\* getAlphaProbability and the compound probability of the result lie
\* strictly inside (0, 1).
C14_Original ==
    /\ call.fn = "getShinyProbability" => InsideUnit(outcome.value)
    /\ call.fn = "getAlphaProbability" => InsideUnit(outcome.value)
    /\ Returned =>
           /\ InsideUnit(outcome.value.shinyProbability)
           /\ InsideUnit(outcome.value.shalphaProbability)

\* C14: for every level 0..3 and both charm states the primary probability
\* lies strictly inside (0, 1); the secondary probability and the compound
\* probability of the result do so for alpha levels 1..3, and are 0 at alpha
\* level 0.
C14_ProbabilitiesInsideUnit ==
    /\ call.fn = "getShinyProbability" => InsideUnit(outcome.value)
    /\ call.fn = "getAlphaProbability" =>
           IF call.level = 0 THEN outcome.value = Zero ELSE InsideUnit(outcome.value)
    /\ Returned =>
           /\ InsideUnit(outcome.value.shinyProbability)
           /\ IF call.input.alphaDonutLevel = 0
              THEN outcome.value.shalphaProbability = Zero
              ELSE InsideUnit(outcome.value.shalphaProbability)

\* A result for alpha level 1 whose compound probability is inside (0, 1).
C14_Witness ==
    /\ Returned
    /\ call.input.alphaDonutLevel = 1
    /\ InsideUnit(outcome.value.shinyProbability)
    /\ InsideUnit(outcome.value.shalphaProbability)

\* The inputs that differ from input in having a higher primary probability
\* alone: charm on instead of off, or a higher shinyDonutLevel.
HigherProbability(input) ==
    {[input EXCEPT !.shinyCharm = TRUE] : c \in {input.shinyCharm} \ {TRUE}} \cup
    {[input EXCEPT !.shinyDonutLevel = l] :
        l \in {h \in DonutLevels : h > input.shinyDonutLevel}}

\* Result w has every primary encounter count of result v strictly smaller,
\* and every primary time when pokemonPerReset is in the caller's range.
SmallerPrimary(v, w) ==
    /\ \A f \in PrimaryEncounters : Lt(w[f], v[f])
    /\ InDomain => \A f \in PrimaryTimes : Lt(w[f], v[f])

PositiveRegionalNumbers == {n \in RegionalNumbers : n >= 1}
FullBoxes == 1 .. (MaxRegionalNumber \div 30)

\* The box, row and column of a position.
Triple(position) == <<position.box, position.row, position.column>>

\* Position v is in range and determines the regional number n.
InBox(v, n) ==
    /\ v.box >= 1
    /\ v.row \in 1 .. 5
    /\ v.column \in 1 .. 6
    /\ v.slotIndex \in 0 .. 29
    /\ v.slotIndex = (v.row - 1) * 6 + (v.column - 1)
    /\ n = (v.box - 1) * 30 + v.slotIndex + 1

\* C19: for every regional number n >= 1, calculateBoxPosition(n) returns
\* box >= 1, row in 1..5, column in 1..6 and slotIndex in 0..29 with
\* slotIndex = (row - 1) * 6 + (column - 1) and
\* n = (box - 1) * 30 + slotIndex + 1; distinct regional numbers map to
\* distinct (box, row, column) and every slot of every box is hit by exactly
\* one regional number.
C19_BoxPosition ==
    (call.fn = "calculateBoxPosition" /\ call.regionalNumber >= 1) =>
        /\ InBox(outcome.value, call.regionalNumber)
        /\ \A other \in PositiveRegionalNumbers \ {call.regionalNumber} :
               Triple(calculateBoxPosition(other)) # Triple(outcome.value)
        /\ \A box \in FullBoxes, row \in 1 .. 5, column \in 1 .. 6 :
               Cardinality({n \in PositiveRegionalNumbers :
                   Triple(calculateBoxPosition(n)) = <<box, row, column>>}) = 1

\* calculateBoxPosition(30) has returned the last slot of box 1 and
\* calculateBoxPosition(31) starts box 2.
C19_Witness ==
    /\ call.fn = "calculateBoxPosition"
    /\ call.regionalNumber = 30
    /\ outcome.value = [box |-> 1, row |-> 5, column |-> 6, slotIndex |-> 29]
    /\ calculateBoxPosition(31) = [box |-> 2, row |-> 1, column |-> 1, slotIndex |-> 0]

(***************************************************************************)
(* Properties of the hyperspace calculator page.                            *)
(***************************************************************************)
\* The integers 1 to 50 as numbers.
ValidPokemonPerReset == {FromInt(n) : n \in 1 .. 50}

\* C17: after any sequence of edits of the pokemonPerReset field, preset
\* clicks and selections, the pokemonPerReset the page passes to
\* computeHyperspaceTimes is an integer in 1..50 and the call does not throw;
\* whenever the field text is invalid, the displayed result is the stored
\* last valid result.
C17_PageNeverThrows ==
    /\ page.pokemonPerReset \in ValidPokemonPerReset
    /\ ~computed(page).threw
    /\ page.uncaught = Null
    /\ ~isPokemonPerResetValid(page) => results(page) = Return(page.lastValidResult)

\* The field holds "51", typed after "50": pokemonPerReset is still 50 and the
\* page displays the stored result, the one for 50.
C17_Witness ==
    /\ ~page.effectPending
    /\ page.pokemonPerResetInput = "51"
    /\ page.pokemonPerReset = FromInt(50)
    /\ page.lastValidResult # Null
    /\ results(page).value = page.lastValidResult
    /\ page.lastValidResult.encountersPerMinute \in {FromInt(500), FromInt(1250)}

\* The numeric fields of a result that have a formatted field.
DurationFields == PrimaryTimes \cup CompoundTimes
EncounterFields == PrimaryEncounters \cup CompoundEncounters

\* Result v has, in each formatted field, the placeholder or the text of a
\* duration or of a count.
Displayable(v) ==
    /\ \A f \in DurationFields :
           v[f \o "Formatted"] = EmDash \/ SecondsInRange(v[f \o "Formatted"])
    /\ \A f \in EncounterFields :
           \/ v[f \o "Formatted"] = EmDash
           \/ isFinite(v[f]) /\ IsCountOf(v[f \o "Formatted"], MathRound(v[f]))

\* C18: in every reachable state of the page, from the initial valid input
\* '10' on, the displayed result is not null and each of its formatted
\* fields is an estimate or the placeholder; the branch without a result is
\* not reached.
C18_ResultDisplayed ==
    /\ ~results(page).threw
    /\ results(page).value # Null
    /\ Displayable(results(page).value)

\* The field holds "abc" and the page displays a stored result with an
\* estimate for t99 and the placeholder for t99Shalpha.
C18_Witness ==
    /\ ~page.effectPending
    /\ page.pokemonPerResetInput = "abc"
    /\ results(page).value # Null
    /\ results(page).value.t99Formatted # EmDash
    /\ results(page).value.t99ShalphaFormatted = EmDash

(***************************************************************************)
(* Properties of loadPokedex.                                               *)
(***************************************************************************)
\* No load has failed.
NoLoadRejected == \A i \in 1 .. Len(loads) : loads[i].step # "rejected"

\* C20: for any interleaving of loadPokedex calls with the completion of
\* successful fetches, the pair of fetches is issued at most once and every
\* call resolves to the same combined list, the cached one; once
\* cachedPokedex is not null it is never replaced and no later call issues
\* a fetch.
C20_LoadedOnce ==
    /\ [](NoLoadRejected => Len(loads) <= 1)
    /\ [](\A c \in Callers :
            loadCalls[c].state = "fulfilled" =>
                /\ loadCalls[c].value = cachedPokedex
                /\ \E i \in 1 .. Len(loads) :
                       cachedPokedex = Array(combined(loads[i].regional,
                                                      loads[i].hyperspace)))
    /\ [][cachedPokedex # Null =>
              cachedPokedex' = cachedPokedex /\ Len(loads') = Len(loads)]_vars

\* Two calls have resolved to the cached list of four entries, after one load
\* that did not fail.
C20_Witness ==
    /\ NoLoadRejected
    /\ Len(loads) = 1
    /\ cachedPokedex # Null
    /\ Len(cachedPokedex.items) = 4
    /\ \A c \in Callers :
           loadCalls[c].state = "fulfilled" /\ loadCalls[c].value = cachedPokedex

\* Load i fails in this step.
Fails(i) == loads[i].step # "rejected" /\ loads'[i].step = "rejected"

\* Caller c gets a promise from loadPokedex in this step.
GetsPromise(c) == loadCalls[c].state = "idle" /\ loadCalls'[c].state = "pending"

\* C22: when a load fails, every caller awaiting it receives the rejection,
\* cachedPokedex stays null and loadPromise is reset to null, so the next
\* loadPokedex call starts a fresh load instead of returning the failed
\* promise; a failure is never cached.
C22_FailureNotCached ==
    /\ [][\A i \in 1 .. Len(loads) :
              Fails(i) => cachedPokedex' = Null /\ loadPromise' = 0]_vars
    /\ [][\A c \in Callers :
              (/\ loadCalls[c].state = "pending"
               /\ loads[loadCalls[c].promise].step = "rejected"
               /\ loadCalls'[c] # loadCalls[c]) => loadCalls'[c] = RejectedCall]_vars
    /\ [](loadPromise # 0 => loads[loadPromise].step # "rejected")
    /\ []((\A i \in 1 .. Len(loads) : loads[i].step # "fulfilled") => cachedPokedex = Null)
    /\ [][\A c \in Callers :
              GetsPromise(c) =>
                  /\ loads'[loadCalls'[c].promise].step # "rejected"
                  /\ (loads # <<>> /\ loads[Len(loads)].step = "rejected") =>
                         /\ Len(loads') = Len(loads) + 1
                         /\ loadCalls'[c].promise = Len(loads')]_vars

\* The first load failed while both callers awaited it; caller 1 holds the
\* rejection, and caller 2 has called again and awaits a second load.
C22_Witness ==
    /\ Len(loads) = 2
    /\ loads[1].step = "rejected"
    /\ loads[2].step = "fetching"
    /\ loadCalls[1] = RejectedCall
    /\ loadCalls[2] = PendingCall(2)
    /\ cachedPokedex = Null
    /\ loadPromise = 2

(***************************************************************************)
(* Properties of getPokemonSprite.                                          *)
(***************************************************************************)
\* The sprite URLs the data holds for the flag; none for the value null.
ApiSprites(pokemonData, isShiny) ==
    IF pokemonData = Null THEN {}
    ELSE ((IF pokemonData.home
           THEN {IF isShiny THEN pokemonData.homeShiny ELSE pokemonData.homeDefault}
           ELSE {})
          \cup {IF isShiny THEN pokemonData.frontShiny ELSE pokemonData.frontDefault})
         \ {""}

\* Call c starts in this step, for nationalNumber and isShiny.
Starts(c, nationalNumber, isShiny) ==
    /\ sprites.calls[c].state = "idle"
    /\ sprites'.calls[c].state # "idle"
    /\ sprites'.calls[c].nationalNumber = nationalNumber
    /\ sprites'.calls[c].isShiny = isShiny

\* Call c, made with a fallbackUrl, settles in this step.
SettlesWithFallback(c) ==
    /\ sprites.calls[c].state \in {"fetching", "json", "data"}
    /\ sprites.calls[c].fallbackUrl # ""
    /\ sprites'.calls[c].state \in {"fulfilled", "rejected"}

\* Call d has returned its fallbackUrl for nationalNumber and isShiny.
HoldsFallback(d, nationalNumber, isShiny) ==
    /\ sprites.calls[d].state = "fulfilled"
    /\ sprites.calls[d].fallbackUrl # ""
    /\ sprites.calls[d].value = sprites.calls[d].fallbackUrl
    /\ sprites.calls[d].nationalNumber = nationalNumber
    /\ sprites.calls[d].isShiny = isShiny

\* With a fallbackUrl a call is never rejected; it returns a sprite URL of
\* the response where there is one and fallbackUrl after a failed fetch, a
\* response that is not ok or without a sprite.
FallbackReturned ==
    \A c \in SpriteCallers :
        SettlesWithFallback(c) =>
            /\ sprites'.calls[c].state = "fulfilled"
            /\ IF /\ sprites.calls[c].state = "data"
                  /\ ApiSprites(sprites.calls[c].pokemonData, sprites.calls[c].isShiny) # {}
               THEN sprites'.calls[c].value
                        \in ApiSprites(sprites.calls[c].pokemonData, sprites.calls[c].isShiny)
               ELSE sprites'.calls[c].value = sprites.calls[c].fallbackUrl

\* The caches hold values of successful responses only.
CachesFromApi ==
    /\ \A key \in DOMAIN sprites.spriteCache :
           \E data \in ApiData : sprites.spriteCache[key] \in ApiSprites(data, key[2])
    /\ \A nationalNumber \in DOMAIN sprites.pokemonDataCache :
           sprites.pokemonDataCache[nationalNumber] \in ApiData

\* C21 as claimed: with a non-empty fallbackUrl getPokemonSprite never
\* rejects; it returns the API sprite URL when the call succeeds and yields a
\* sprite and fallbackUrl when the fetch fails, the response is not ok or no
\* sprite exists; the caches only hold values of successful responses, and a
\* call for a (nationalNumber, isShiny) for which a fallback was returned
\* queries the API again.
C21_Original ==
    /\ [][FallbackReturned]_vars
    /\ []CachesFromApi
    /\ [][\A c \in SpriteCallers, d \in SpriteCallers :
              \A nationalNumber \in NationalNumbers, isShiny \in BOOLEAN :
                  (HoldsFallback(d, nationalNumber, isShiny) /\ Starts(c, nationalNumber, isShiny))
                      => sprites'.queries = sprites.queries + 1]_vars

\* C21, amended: as claimed, but a call for a (nationalNumber, isShiny) that
\* is not in spriteCache, as after a fallback, queries the API again exactly
\* when no response for nationalNumber is in pokemonDataCache; after a
\* fallback for want of a sprite the response is cached, and the later call
\* reads it instead of querying the API.
C21_FallbackNotCached ==
    /\ [][FallbackReturned]_vars
    /\ []CachesFromApi
    /\ [][\A c \in SpriteCallers :
              \A nationalNumber \in NationalNumbers, isShiny \in BOOLEAN :
                  (/\ Starts(c, nationalNumber, isShiny)
                   /\ cacheKey(nationalNumber, isShiny) \notin DOMAIN sprites.spriteCache)
                      => IF nationalNumber \in DOMAIN sprites.pokemonDataCache
                         THEN /\ sprites'.queries = sprites.queries
                              /\ sprites'.calls[c].pokemonData
                                     = sprites.pokemonDataCache[nationalNumber]
                         ELSE sprites'.queries = sprites.queries + 1]_vars

\* Caller 1 holds the fallback for the shiny sprite of 25, returned for want
\* of a sprite in the response; caller 2 has called for the same sprite and
\* has the cached response, after one query in all.
C21_Witness ==
    /\ HoldsFallback(1, 25, TRUE)
    /\ sprites.calls[1].pokemonData # Null
    /\ sprites.calls[2].state = "data"
    /\ sprites.calls[2].nationalNumber = 25
    /\ sprites.calls[2].isShiny
    /\ sprites.calls[2].pokemonData = sprites.calls[1].pokemonData
    /\ sprites.queries = 1
    /\ cacheKey(25, TRUE) \notin DOMAIN sprites.spriteCache

(***************************************************************************)
(* Properties of the Pokemon detail page.                                   *)
(***************************************************************************)
\* This step assigns a list that is not empty to searchResults, or sets
\* showDropdown to true.
Opens ==
    \/ detail'.searchResults # detail.searchResults /\ detail'.searchResults # <<>>
    \/ detail'.showDropdown /\ ~detail.showDropdown

\* A searchPokemon invocation whose requestId equals searchRequestId acts in
\* this step: the timer's, one that awaited the load, or one that the URL
\* effect starts with a new id.
CurrentActs ==
    \/ /\ detail.searchTimeout.pending /\ ~detail'.searchTimeout.pending
       /\ detail.searchTimeout.requestId = detail.searchRequestId
    \/ /\ detail.loading /\ ~detail'.loading
       /\ \E i \in 1 .. Len(detail.awaiting) :
              /\ detail.awaiting[i].kind = "search"
              /\ detail.awaiting[i].requestId = detail.searchRequestId
    \/ /\ detail.urlEffectPending /\ ~detail'.urlEffectPending
       /\ detail'.searchRequestId = detail.searchRequestId + 1

\* C23: under any interleaving of input events, timer firings, pokedex load
\* completions, selectPokemon and clearSearch, a searchPokemon invocation
\* whose requestId is no longer equal to searchRequestId never assigns a
\* non-empty searchResults and never sets showDropdown to true; searchResults
\* never holds more than 10 entries.
C23_StaleSearchIgnored ==
    /\ [](Len(detail.searchResults) <= 10)
    /\ [][Opens => CurrentActs]_vars

\* The timer of an input has fired with a requestId that the URL effect has
\* made stale, and the dropdown shows the first ten of the eleven matches of
\* "a", found by the search of the effect.
C23_Witness ==
    /\ detail.searchTimeout.set
    /\ ~detail.searchTimeout.pending
    /\ detail.searchTimeout.requestId < detail.searchRequestId
    /\ detail.searchQuery = "a"
    /\ detail.showDropdown
    /\ Len(detail.searchResults) = 10

C25_ClearedStaysCleared ==
    (detail.lastHandler = "clear" /\ ~detail.urlChanged) =>
        /\ detail.searchQuery = ""
        /\ detail.searchResults = <<>>
        /\ ~detail.showDropdown

\* The runs of the load effect that await the load are all cancelled.
AllCancelled ==
    \A i \in 1 .. Len(detail.awaiting) :
        detail.awaiting[i].kind = "run" => detail.awaiting[i].cancelled

\* selectedPokemon and notFound describe the id of the route.
DescribesId ==
    IF detail.id = 0 THEN detail.notFound
    ELSE IF detail.notFound THEN detail.selectedPokemon = Null /\ detail.boxPosition = Null
    ELSE /\ detail.selectedPokemon # Null
         /\ detail.selectedPokemon = getPokemonByNationalNumber(detail.id, LoadedPokedex)
         /\ detail.boxPosition = calculateBoxPosition(detail.selectedPokemon.regionalNumber)

\* C26: for any sequence of route id changes interleaved with the completion
\* (success or failure) of the pokedex load, a load run that has been
\* cancelled never writes selectedPokemon, boxPosition, notFound or isLoading
\* after its await, and once the load for the latest id settles isLoading is
\* false and selectedPokemon/notFound describe the latest id.
C26_LatestIdLoaded ==
    /\ [][(detail.loading /\ ~detail'.loading /\ AllCancelled) =>
              /\ detail'.selectedPokemon = detail.selectedPokemon
              /\ detail'.boxPosition = detail.boxPosition
              /\ detail'.notFound = detail.notFound
              /\ detail'.isLoading = detail.isLoading]_vars
    /\ []((Idle /\ AllCancelled) => (~detail.isLoading /\ DescribesId))

\* The route went from 25 to 999 while the pokedex was loading; the load has
\* been fulfilled and the page says that 999 was not found.
C26_Witness ==
    /\ Idle
    /\ detail.id = 999
    /\ detail.pokedex
    /\ detail.notFound
    /\ ~detail.isLoading
    /\ detail.selectedPokemon = Null
    /\ detail.searchRequestId = 0

\* C27: the service worker's fetch handler ignores non-GET requests, and for
\* every GET request respond() resolves to a response and never rejects: a
\* cached response, the network response, or a 503 'Offline' response when
\* the network fails and no cache entry exists (including /api/ requests,
\* which try the network first); only responses with ok status are ever put
\* into the cache.
C27_RespondNeverRejects ==
    /\ worker.event.method \notin {"GET", "none"} => worker.settled = "none"
    /\ worker.event.method = "GET" => worker.settled \in {"pending", "fulfilled"}
    /\ worker.settled = "fulfilled" =>
        /\ worker.from \in {"cache", "network", "offline"}
        /\ worker.from = "network" => worker.response \in NetworkResponses
        /\ worker.from = "offline" =>
            /\ worker.response = OfflineResponse
            /\ worker.networkFailed
            /\ worker.missed
    /\ \A url \in RequestUrls : worker.cache[url] # Null => Ok(worker.cache[url])
    /\ \A put \in worker.puts : Ok(put.response)

\* C28: after i18n initialization and any sequence of setLanguage calls,
\* getCurrentLanguage() returns the same language that is active in the
\* locale store, for every combination of stored preference (absent, 'en',
\* 'fr', other) and browser language.
C28_LanguageMatchesStore ==
    i18n.returned # "none" => i18n.returned = i18n.locale

\* The integer part of the number a compact text starts with.
IntegerPart(text) == parseInt(text)

\* C29: for every count whose rounded value n satisfies
\* 10,000 <= n < 1,000,000, formatEncounters returns a "k" string whose
\* numeric part is at least 10 and strictly less than 1000, and for
\* n >= 1,000,000 the numeric part of the "M" string is at least 1.
C29_CompactNumericPart ==
    (call.fn = "formatEncounters" /\ isFinite(call.count) /\ Gt(call.count, Zero)) =>
        /\ (MathRound(call.count) >= 10000 /\ MathRound(call.count) < 1000000) =>
               /\ EndsWith(outcome.value, "k")
               /\ Ge(IntegerPart(outcome.value), FromInt(10))
               /\ Lt(IntegerPart(outcome.value), FromInt(1000))
        /\ MathRound(call.count) >= 1000000 =>
               /\ EndsWith(outcome.value, "M")
               /\ Ge(IntegerPart(outcome.value), FromInt(1))

(***************************************************************************)
(* The result the calculator page displays.                                 *)
(***************************************************************************)
\* C30 as claimed: in every reachable state of the page the displayed result
\* equals computeHyperspaceTimes applied to the selected method, levels and
\* charm and the last accepted pokemonPerReset, also while the field holds an
\* invalid value.
C30_Original == results(page) = computed(page)

\* C30, amended: while the field holds a valid value the displayed result
\* equals computeHyperspaceTimes applied to the selected method, levels and
\* charm and the accepted pokemonPerReset; while it holds an invalid value the
\* displayed result is the one that was displayed when the field became
\* invalid, whatever is selected afterwards.
C30_DisplayedResult ==
    /\ [](isPokemonPerResetValid(page) => results(page) = computed(page))
    /\ [][~isPokemonPerResetValid(page') => results(page') = results(page)]_vars

\* The field holds "abc" and manual was selected afterwards: the page
\* displays the result for auto (250 encounters per minute), not the one for
\* the selections.
C30_Witness ==
    /\ ~page.effectPending
    /\ page.pokemonPerResetInput = "abc"
    /\ page.method = "manual"
    /\ page.pokemonPerReset = FromInt(10)
    /\ results(page).value.encountersPerMinute = FromInt(250)
    /\ computed(page).value.encountersPerMinute = FromInt(100)

====
